---- MODULE Spec2Model ----
(***************************************************************************)
(* A model of the CYBER_repinning tool: the Pin Orchestrator                *)
(* (app.py migrate_collection), the pin adapter (utils.py pin_cid), the    *)
(* streaming Verification Engine (utils.py _stream_verify_cids), the       *)
(* Duplicate Cleanup (utils.py cleanup_duplicate_pins and                  *)
(* verify_cleanup_success), the standard detector (detect_arc_standard),   *)
(* the CID Codec (extract_arc19_cid), the Metadata Resolver                *)
(* (fetch_metadata_and_extract_image_cid), the Collection Builder          *)
(* (create_collection_dataframe) and the pin verification of the           *)
(* collection (app.py verify_collection_pins).                             *)
(*                                                                         *)
(* Each component has its own specification (SpecMigrate, SpecAnalyze,     *)
(* SpecPin, SpecVerify, SpecCleanup, SpecLive, SpecReview, SpecDetect,     *)
(* SpecExtract, SpecResolve, SpecBuild); the variables of the other        *)
(* components stay at their idle values.  SpecSession puts fetches,        *)
(* migrations and verifications of one session together.                  *)
(***************************************************************************)
EXTENDS Integers, Sequences, FiniteSets, TLC

VARIABLES
    \* ---- Pin Orchestrator (app.py migrate_collection) ----
    collection_df,         \* st.session_state.collection_df: sequence of AssetRecords
    pinning_strategy,      \* st.session_state.pinning_strategy
    mig_pc,                \* position of migrate_collection
    pending_assets,        \* the copy of the pending rows, with their original indices
    strategy_type,         \* the type returned by analyze_collection_structure
    image_cids_to_pin,     \* list returned by get_cids_to_pin
    metadata_cids_to_pin,  \* list collected from the pending rows
    pin_results,           \* dict cid -> {success, type}
    pin_calls,             \* the calls made on the pin adapter, in order
    mig_i,                 \* loop index of the current loop of migrate_collection
    \* ---- pin adapter (utils.py pin_cid / _pin_with_4everland) ----
    svc_pins,              \* the CIDs the service holds a pin for
    pin_last,              \* the last pin_cid call and what it returned
    \* ---- Verification Engine (utils.py _stream_verify_cids) ----
    inventory,             \* the remote pin inventory, in listing order
    cids_to_check,         \* the target list
    ver_caller,            \* the function that called _stream_verify_cids
    ver_pc,                \* position of _stream_verify_cids
    offset,                \* listing offset
    pages_processed,       \* pages processed by the streaming loop
    found_cids,            \* dict cid -> first status seen
    duplicate_counts,      \* dict cid -> number of occurrences seen
    retries,               \* rate-limit (HTTP 429) responses seen in this run
    page_fetches,          \* successful (HTTP 200) page fetches of the streaming loop
    individual_results,    \* what _individual_lookup_limited returned, per missing CID
    ver_ret,               \* the tuple _stream_verify_cids returned
    caller_ret,            \* what the caller made of it: its return value, or the raise
    \* ---- Duplicate Cleanup (utils.py cleanup_duplicate_pins) ----
    cln_pc,                \* position of the cleanup flow
    dry_run,               \* cleanup_duplicate_pins' dry_run argument
    duplicate_report,      \* the duplicate report handed to cleanup
    cleanup_results,       \* the dict cleanup_duplicate_pins builds
    delete_calls,          \* request ids deletePin was called with, in order
    cln_cid_i,             \* index of the CID being processed
    cln_del,               \* that CID's cid_details and its instances still to delete
    scan_status,           \* response.status_code of the last GET of the full scan
    \* ---- CID Codec / Collection Builder ----
    asset_params,          \* the params detect_arc_standard is applied to
    arc_standard,          \* what detect_arc_standard returned for them
    arc19_cid,             \* what extract_arc19_cid returned for them
    raw_assets,            \* the raw assets fetched for the creator address
    prior_df,              \* the collection handed to the last build as existing_df
    bld_pc,                \* position of the build flow
    \* ---- Metadata Resolver (utils.py fetch_metadata_and_extract_image_cid) ----
    gateway_answers,       \* what each gateway of the list answers to a GET
    gateway_attempts,      \* indexes of the gateways requested so far, in order
    res_ret,               \* the pair fetch_metadata_and_extract_image_cid returned
    res_pc,                \* position of the resolver: "idle", "loop", "returned"
    \* ---- Pin verification of the collection (app.py verify_collection_pins) ----
    verification_results   \* st.session_state.verification_results

migVars == <<collection_df, pinning_strategy, mig_pc, pending_assets, strategy_type,
             image_cids_to_pin, metadata_cids_to_pin, pin_results, pin_calls, mig_i>>
pinVars == <<svc_pins, pin_last>>
verVars == <<inventory, cids_to_check, ver_caller, ver_pc, offset, pages_processed,
             found_cids, duplicate_counts, retries, page_fetches, individual_results,
             ver_ret, caller_ret>>
clnVars == <<cln_pc, dry_run, duplicate_report, cleanup_results, delete_calls,
             cln_cid_i, cln_del, scan_status>>
resVars == <<gateway_answers, gateway_attempts, res_ret, res_pc>>
vcpVars == <<verification_results>>
bldVars == <<asset_params, arc_standard, arc19_cid, raw_assets, prior_df, bld_pc, resVars,
             vcpVars>>
vars == <<migVars, pinVars, verVars, clnVars, bldVars>>

(***************************************************************************)
(* Generic helpers                                                         *)
(***************************************************************************)
Range(s) == {s[i] : i \in 1..Len(s)}

Min2(a, b) == IF a <= b THEN a ELSE b

\* pandas Series.unique() / dict.fromkeys: the values in order of first appearance
RECURSIVE Unique(_)
Unique(s) ==
    IF s = <<>> THEN <<>>
    ELSE LET front == Unique(SubSeq(s, 1, Len(s) - 1))
             last == s[Len(s)]
         IN IF last \in Range(front) THEN front ELSE Append(front, last)

\* sequences over S of length at most n
SeqUpTo(S, n) == UNION {[1..k -> S] : k \in 0..n}

(***************************************************************************)
(* Structure Analyzer (utils.py analyze_collection_structure,              *)
(* get_cids_to_pin).  A data frame is a sequence of rows.                  *)
(***************************************************************************)
ImageCol(df) == [i \in 1..Len(df) |-> df[i].image_cid]

\* df['image_cid'].nunique()
NUnique(df) == Cardinality(Range(ImageCol(df)))

\* df.groupby('image_cid').size(): number of rows per image CID
GroupSize(df, cid) == Cardinality({i \in 1..Len(df) : df[i].image_cid = cid})

\* mutant: file paths count only when every row has one
HasFilePathsAll(df) == \A i \in 1..Len(df) : df[i].image_file_path # ""

\* 'image_file_path' in df.columns and (df['image_file_path'] != '').any()
HasFilePaths(df) ==
    \E i \in 1..Len(df) :
        "image_file_path" \in DOMAIN df[i] /\ df[i].image_file_path # ""

analyze_collection_structure(df) ==
    IF df = <<>> THEN [type |-> "none", total_assets |-> 0, unique_base_cids |-> 0,
                       duplicated_cids |-> 0]
    ELSE IF HasFilePaths(df) /\ NUnique(df) < Len(df)
         THEN [type |-> "directory_based", total_assets |-> Len(df),
               unique_base_cids |-> NUnique(df), duplicated_cids |-> 0]
    ELSE IF NUnique(df) = Len(df)
         THEN [type |-> "individual_cids", total_assets |-> Len(df),
               unique_base_cids |-> NUnique(df), duplicated_cids |-> 0]
    ELSE [type |-> "mixed", total_assets |-> Len(df), unique_base_cids |-> NUnique(df),
          duplicated_cids |->
              Cardinality({c \in Range(ImageCol(df)) : GroupSize(df, c) > 1})]

\* mutant: every strategy pins one CID per row
get_cids_to_pin_per_row(df, strategy) == ImageCol(df)

get_cids_to_pin(df, strategy) ==
    IF df = <<>> THEN <<>>
    ELSE IF strategy = "auto"
         THEN IF analyze_collection_structure(df).type = "directory_based"
              THEN Unique(ImageCol(df))
              ELSE IF analyze_collection_structure(df).type = "individual_cids"
                   THEN ImageCol(df)
                   ELSE Unique(ImageCol(df))
    ELSE IF strategy = "base_cids_only" THEN Unique(ImageCol(df))
    ELSE IF strategy = "individual_files" THEN ImageCol(df)
    ELSE IF strategy = "unique_only" THEN Unique(ImageCol(df))
    ELSE IF strategy = "all_individual" THEN ImageCol(df)
    ELSE Unique(ImageCol(df))

(***************************************************************************)
(* Pin Orchestrator (app.py migrate_collection)                            *)
(***************************************************************************)
MaxRecords == 2

ImageCids == {"X", "Y"}
MetadataCids == {"", "X", "Y", "Z"}
AllCids == ImageCids \cup MetadataCids
Statuses == {"pending", "completed", "failed"}
\* 'auto' when the session holds no strategy; the others are set by the CSV upload page
Strategies == {"auto", "base_cids_only", "individual_files", "individual_cids",
               "unique_only", "all_individual"}

\* A row of the collection.  repin_cid and error_message are as the tool leaves
\* them for a record of that status.
AssetRecord(id, img, meta, path, st) ==
    [asset_id |-> id, image_cid |-> img, metadata_cid |-> meta,
     image_file_path |-> path, status |-> st,
     repin_cid |-> IF st = "completed" THEN img ELSE "",
     error_message |-> IF st = "completed" THEN "Complete NFT pinned"
                       ELSE IF st = "failed" THEN "Image" ELSE ""]

\* the collections a session can hold: rows from a chain fetch (no file paths) or
\* from a directory CSV (a file path on every row)
Collections ==
    UNION {{[i \in 1..n |-> AssetRecord(i, img[i], meta[i],
                                         IF paths THEN "file" ELSE "", st[i])] :
                img \in [1..n -> ImageCids], meta \in [1..n -> MetadataCids],
                st \in [1..n -> Statuses], paths \in BOOLEAN} : n \in 0..MaxRecords}

NoPinResult == [present |-> FALSE, success |-> FALSE, type |-> "none"]

\* pin_results.get(cid, {'success': False, ...})
PinResultGet(results, cid) == IF results[cid].present THEN results[cid] ELSE NoPinResult

\* the rows of pending_assets, without their indices
PendingRows == [i \in 1..Len(pending_assets) |-> pending_assets[i].row]

\* the metadata CIDs to pin: non-empty, not yet listed, different from the row's image CID
RECURSIVE CollectMetadataCids(_)
CollectMetadataCids(rows) ==
    IF rows = <<>> THEN <<>>
    ELSE LET front == CollectMetadataCids(SubSeq(rows, 1, Len(rows) - 1))
             row == rows[Len(rows)]
         IN IF row.metadata_cid # "" /\ row.metadata_cid \notin Range(front)
               /\ row.metadata_cid # row.image_cid
            THEN Append(front, row.metadata_cid) ELSE front

\* mutant: the run takes every row of the collection, whatever its status
PendingOfAll(df, n) == [i \in 1..n |-> [index |-> i, row |-> df[i]]]

\* st.session_state.collection_df[pending_mask].copy(), rows with their original index
RECURSIVE PendingOf(_, _)
PendingOf(df, n) ==
    IF n = 0 THEN <<>>
    ELSE IF df[n].status = "pending"
         THEN Append(PendingOf(df, n - 1), [index |-> n, row |-> df[n]])
         ELSE PendingOf(df, n - 1)

MigIdle == mig_pc \in {"idle", "no_pending", "aborted", "done"}

\* lines 980-1026: the pending rows, the analysis and the two pin lists
MigrateStart ==
    /\ MigIdle
    /\ LET pend == PendingOf(collection_df, Len(collection_df))
           rows == [i \in 1..Len(pend) |-> pend[i].row]
       IN /\ pending_assets' = pend
          /\ pin_results' = [c \in AllCids |-> NoPinResult]
          /\ pin_calls' = <<>>
          /\ mig_i' = 1
          /\ IF pend = <<>>
             THEN /\ mig_pc' = "no_pending"
                  /\ strategy_type' = "none"
                  /\ image_cids_to_pin' = <<>>
                  /\ metadata_cids_to_pin' = <<>>
             ELSE /\ mig_pc' = "validate"
                  /\ strategy_type' = analyze_collection_structure(rows).type
                  /\ image_cids_to_pin' = get_cids_to_pin(rows, pinning_strategy)
                  /\ metadata_cids_to_pin' = CollectMetadataCids(rows)
    /\ UNCHANGED <<collection_df, pinning_strategy>>
    /\ UNCHANGED <<pinVars, verVars, clnVars, bldVars>>

\* mutant: a run that goes from the credential check to the image loop, leaving the
\* metadata loop out
MigrateValidateImageOnly ==
    /\ mig_pc = "validate"
    /\ \E is_valid \in BOOLEAN :
          mig_pc' = IF ~is_valid THEN "aborted" ELSE "pin_image"
    /\ UNCHANGED <<collection_df, pinning_strategy, pending_assets, strategy_type,
                   image_cids_to_pin, metadata_cids_to_pin, pin_results, pin_calls, mig_i>>
    /\ UNCHANGED <<pinVars, verVars, clnVars, bldVars>>

\* lines 1028-1038: validate_api_key; an invalid credential returns before any pin
MigrateValidate ==
    /\ mig_pc = "validate"
    /\ \E is_valid \in BOOLEAN :
          mig_pc' = IF ~is_valid THEN "aborted"
                    ELSE IF metadata_cids_to_pin # <<>> THEN "pin_metadata"
                    ELSE "pin_image"
    /\ UNCHANGED <<collection_df, pinning_strategy, pending_assets, strategy_type,
                   image_cids_to_pin, metadata_cids_to_pin, pin_results, pin_calls, mig_i>>
    /\ UNCHANGED <<pinVars, verVars, clnVars, bldVars>>

\* lines 1072-1113: one iteration of the metadata loop; pin_cid returns (success, _),
\* and an exception is recorded as a failure
PinMetadata ==
    /\ mig_pc = "pin_metadata"
    /\ mig_i <= Len(metadata_cids_to_pin)
    /\ \E success \in BOOLEAN :
          LET cid == metadata_cids_to_pin[mig_i]
          IN /\ pin_results' = [pin_results EXCEPT
                    ![cid] = [present |-> TRUE, success |-> success, type |-> "metadata"]]
             /\ pin_calls' = Append(pin_calls,
                    [cid |-> cid, type |-> "metadata", success |-> success])
    /\ IF mig_i = Len(metadata_cids_to_pin)
       THEN mig_pc' = "pin_image" /\ mig_i' = 1
       ELSE mig_pc' = mig_pc /\ mig_i' = mig_i + 1
    /\ UNCHANGED <<collection_df, pinning_strategy, pending_assets, strategy_type,
                   image_cids_to_pin, metadata_cids_to_pin>>
    /\ UNCHANGED <<pinVars, verVars, clnVars, bldVars>>

\* lines 1118-1159: one iteration of the image loop
PinImage ==
    /\ mig_pc = "pin_image"
    /\ mig_i <= Len(image_cids_to_pin)
    /\ \E success \in BOOLEAN :
          LET cid == image_cids_to_pin[mig_i]
          IN /\ pin_results' = [pin_results EXCEPT
                    ![cid] = [present |-> TRUE, success |-> success, type |-> "image"]]
             /\ pin_calls' = Append(pin_calls,
                    [cid |-> cid, type |-> "image", success |-> success])
    /\ IF mig_i = Len(image_cids_to_pin)
       THEN mig_pc' = "update" /\ mig_i' = 1
       ELSE mig_pc' = mig_pc /\ mig_i' = mig_i + 1
    /\ UNCHANGED <<collection_df, pinning_strategy, pending_assets, strategy_type,
                   image_cids_to_pin, metadata_cids_to_pin>>
    /\ UNCHANGED <<pinVars, verVars, clnVars, bldVars>>

\* lines 1181-1190: the metadata part of an asset's result
MetadataPinSuccess(row, results) ==
    IF row.metadata_cid = "" THEN TRUE
    ELSE IF row.metadata_cid = row.image_cid THEN TRUE
    ELSE PinResultGet(results, row.metadata_cid).success

\* mutant: an asset succeeds as soon as one of its two CIDs was pinned
OverallSuccessEither(row, results) ==
    PinResultGet(results, row.image_cid).success \/ MetadataPinSuccess(row, results)

\* lines 1179-1193: overall_success of one pending row
OverallSuccess(row, results) ==
    PinResultGet(results, row.image_cid).success /\ MetadataPinSuccess(row, results)

\* lines 1216-1225: the message of a failed asset
CombinedError(row, results) ==
    LET img == ~PinResultGet(results, row.image_cid).success
        meta == row.metadata_cid # "" /\ row.metadata_cid # row.image_cid
                /\ ~MetadataPinSuccess(row, results)
    IN IF img /\ meta THEN "Image; Metadata"
       ELSE IF img THEN "Image"
       ELSE IF meta THEN "Metadata"
       ELSE "Unknown error"

\* lines 1195-1228: the row as the status update leaves it
UpdatedRow(cur, row, results) ==
    IF OverallSuccess(row, results)
    THEN [cur EXCEPT !.status = "completed", !.repin_cid = row.image_cid,
                     !.error_message = "Complete NFT pinned"]
    ELSE [cur EXCEPT !.status = "failed", !.error_message = CombinedError(row, results)]

\* lines 1171-1237: one iteration of the status re-walk over the pending rows; the
\* last one ends the run (lines 1239-1279)
UpdateAsset ==
    /\ mig_pc = "update"
    /\ mig_i <= Len(pending_assets)
    /\ LET p == pending_assets[mig_i]
       IN collection_df' = [collection_df EXCEPT
              ![p.index] = UpdatedRow(collection_df[p.index], p.row, pin_results)]
    /\ IF mig_i = Len(pending_assets)
       THEN mig_pc' = "done" /\ mig_i' = 1
       ELSE mig_pc' = mig_pc /\ mig_i' = mig_i + 1
    /\ UNCHANGED <<pinning_strategy, pending_assets, strategy_type, image_cids_to_pin,
                   metadata_cids_to_pin, pin_results, pin_calls>>
    /\ UNCHANGED <<pinVars, verVars, clnVars, bldVars>>




(***************************************************************************)
(* Idle values of each component's variables                               *)
(***************************************************************************)
MigIdleInit ==
    /\ collection_df = <<>>
    /\ pinning_strategy = "auto"
    /\ mig_pc = "idle"
    /\ pending_assets = <<>>
    /\ strategy_type = "none"
    /\ image_cids_to_pin = <<>>
    /\ metadata_cids_to_pin = <<>>
    /\ pin_results = [c \in AllCids |-> NoPinResult]
    /\ pin_calls = <<>>
    /\ mig_i = 1

PinIdleInit ==
    /\ svc_pins = <<>>
    /\ pin_last = <<>>

VerIdleInit ==
    /\ inventory = <<>>
    /\ cids_to_check = <<>>
    /\ ver_caller = "none"
    /\ ver_pc = "idle"
    /\ offset = 0
    /\ pages_processed = 0
    /\ found_cids = <<>>
    /\ duplicate_counts = <<>>
    /\ retries = 0
    /\ page_fetches = 0
    /\ individual_results = <<>>
    /\ ver_ret = <<>>
    /\ caller_ret = <<>>

ClnIdleInit ==
    /\ cln_pc = "idle"
    /\ dry_run = TRUE
    /\ duplicate_report = <<>>
    /\ cleanup_results = <<>>
    /\ delete_calls = <<>>
    /\ cln_cid_i = 1
    /\ cln_del = <<>>
    /\ scan_status = 0

ResIdleInit ==
    /\ gateway_answers = <<>>
    /\ gateway_attempts = <<>>
    /\ res_ret = <<>>
    /\ res_pc = "idle"

VcpIdleInit == verification_results = <<>>

BldIdleInit ==
    /\ ResIdleInit
    /\ VcpIdleInit
    /\ asset_params = <<>>
    /\ arc_standard = ""
    /\ arc19_cid = [kind |-> "none"]
    /\ raw_assets = <<>>
    /\ prior_df = <<>>
    /\ bld_pc = "idle"

(***************************************************************************)
(* SpecMigrate: migrate_collection on any collection a session can hold    *)
(***************************************************************************)
InitMigrate ==
    /\ collection_df \in Collections
    /\ pinning_strategy \in Strategies
    /\ mig_pc = "idle"
    /\ pending_assets = <<>>
    /\ strategy_type = "none"
    /\ image_cids_to_pin = <<>>
    /\ metadata_cids_to_pin = <<>>
    /\ pin_results = [c \in AllCids |-> NoPinResult]
    /\ pin_calls = <<>>
    /\ mig_i = 1
    /\ PinIdleInit /\ VerIdleInit /\ ClnIdleInit /\ BldIdleInit

NextMigrate ==
    \/ MigrateStart
    \/ MigrateValidate
    \/ PinMetadata
    \/ PinImage
    \/ UpdateAsset

SpecMigrate == InitMigrate /\ [][NextMigrate]_vars


(***************************************************************************)
(* Claims about migrate_collection (checked under SpecMigrate)             *)
(***************************************************************************)
\* the calls made for cid, as positions of pin_calls
CallsFor(cid) == {k \in 1..Len(pin_calls) : pin_calls[k].cid = cid}

\* The pin outcome of a CID in this run: the adapter was called for it and the last
\* call made for it returned success.
PinOutcome(cid) ==
    /\ CallsFor(cid) # {}
    /\ pin_calls[CHOOSE k \in CallsFor(cid) : \A j \in CallsFor(cid) : j <= k].success

\* the status the claim gives a record that was pending at the start, from the
\* outcomes of its own two CIDs only
ClaimedStatus(row) ==
    IF PinOutcome(row.image_cid)
       /\ (row.metadata_cid = "" \/ row.metadata_cid = row.image_cid
           \/ PinOutcome(row.metadata_cid))
    THEN "completed" ELSE "failed"

DistinctImageCids == {PendingRows[i].image_cid : i \in 1..Len(PendingRows)}

DirectoryCase ==
    /\ \E i \in 1..Len(PendingRows) : PendingRows[i].image_file_path # ""
    /\ Cardinality(DistinctImageCids) < Len(PendingRows)

\* the number of image pin calls made for cid
ImagePinCalls(cid) == Cardinality({k \in CallsFor(cid) : pin_calls[k].type = "image"})

MinimalPinSet ==
    /\ strategy_type = "directory_based"
    /\ analyze_collection_structure(PendingRows).unique_base_cids
           = Cardinality(DistinctImageCids)
    /\ \A c \in DistinctImageCids : ImagePinCalls(c) = 1
    /\ \A c \in AllCids \ DistinctImageCids : ImagePinCalls(c) = 0

PendingCids ==
    {pending_assets[i].row.image_cid : i \in 1..Len(pending_assets)}
        \cup {pending_assets[i].row.metadata_cid : i \in 1..Len(pending_assets)}

\* the rows of the collection the run did not take
SettledRows ==
    {i \in 1..Len(collection_df) :
        \A k \in 1..Len(pending_assets) : pending_assets[k].index # i}

\* C11: migrate_collection only processes pending records: no step of a run changes
\* the status, repin_cid or error_message of a record that is 'completed' or
\* 'failed', so such a record is at the end of the run what it was at its start; the
\* run takes only records whose status is 'pending', and every CID given to the pin
\* adapter is the image or metadata CID of a record the run took.
C11_OnlyPendingProcessed ==
    [][/\ \A i \in 1..Len(collection_df) :
             collection_df[i].status \in {"completed", "failed"} =>
                 /\ collection_df'[i].status = collection_df[i].status
                 /\ collection_df'[i].repin_cid = collection_df[i].repin_cid
                 /\ collection_df'[i].error_message = collection_df[i].error_message
       /\ \A k \in 1..Len(pending_assets') : pending_assets'[k].row.status = "pending"
       /\ \A k \in 1..Len(pin_calls') : pin_calls'[k].cid \in PendingCids']_vars

\* C11 witness: a run has ended in which pins were made for a pending record while
\* a failed record with image CID Y and metadata CID Z was left out, and neither Y
\* nor Z was given to the pin adapter.
C11_Witness ==
    /\ mig_pc = "done"
    /\ pin_calls # <<>>
    /\ \E i \in SettledRows :
          /\ collection_df[i].status = "failed"
          /\ collection_df[i].image_cid = "Y" /\ collection_df[i].metadata_cid = "Z"
          /\ CallsFor("Y") = {} /\ CallsFor("Z") = {}

\* a run that took at least one pending record has ended: after the status re-walk
\* (line 1279) or at the return that follows a failed credential check (line 1036)
RunEnded == mig_pc \in {"done", "aborted"}

\* C12: when a run that started with at least one pending record has ended, every
\* record that was pending at its start is 'completed' or 'failed', whatever the pin
\* adapter and the credential check returned.
C12_NoRecordLeftPending ==
    (RunEnded /\ pending_assets # <<>>) =>
        \A k \in 1..Len(pending_assets) :
            collection_df[pending_assets[k].index].status \in {"completed", "failed"}



\* no metadata pin call comes after an image pin call
MetadataFirst ==
    \A j, k \in 1..Len(pin_calls) :
        (pin_calls[j].type = "image" /\ pin_calls[k].type = "metadata") => k < j

\* some record the run took has been written: it differs from the copy of it the
\* run took at its start
WrittenInRun ==
    \E k \in 1..Len(pending_assets) :
        collection_df[pending_assets[k].index] # pending_assets[k].row

\* every pin call of the run has returned: both loops are over
AllPinsReturned ==
    /\ mig_pc \in {"update", "done"}
    /\ Len(pin_calls) = Len(metadata_cids_to_pin) + Len(image_cids_to_pin)

\* C18: in every run the pin calls for metadata CIDs all come before the first pin
\* call for an image CID; a record of the run is written only when every pin call of
\* the run has returned, and no pin call is made once a record has been written.
C18_TwoPhaseBarrier ==
    /\ [](MetadataFirst /\ (WrittenInRun => AllPinsReturned))
    /\ [][Len(pin_calls') > Len(pin_calls) => ~WrittenInRun /\ ~WrittenInRun']_vars

\* C18 witness: a run pinned a metadata CID, then an image CID, and then wrote its
\* record.
C18_Witness ==
    /\ mig_pc = "done"
    /\ Len(pin_calls) = 2
    /\ pin_calls[1].type = "metadata"
    /\ pin_calls[2].type = "image"
    /\ WrittenInRun


\* C29: in a run under the auto, base_cids_only or unique_only strategy the pin
\* adapter is called at most once per distinct CID, also when the metadata CID of one
\* pending record is the image CID of another, and the outcome recorded for a CID is
\* the outcome of that single call.
C29_NoCidPinnedTwice ==
    pinning_strategy \in {"auto", "base_cids_only", "unique_only"} =>
        \A c \in AllCids :
            /\ Cardinality(CallsFor(c)) <= 1
            /\ \A k \in CallsFor(c) :
                  /\ pin_results[c].present
                  /\ pin_results[c].success = pin_calls[k].success

(***************************************************************************)
(* SpecAnalyze: analyze_collection_structure applied to an uploaded        *)
(* collection (app.py 292), whose rows may or may not carry a file path    *)
(***************************************************************************)
MaxRows == 3

AnalyzedCids == {"X", "Y", "Z"}

\* the uploaded collections: any image CID and an optional file path on every row
AnalyzerFrames ==
    UNION {{[i \in 1..n |-> AssetRecord(i, img[i], "", path[i], "pending")] :
                img \in [1..n -> AnalyzedCids], path \in [1..n -> {"", "file"}]} :
           n \in 0..MaxRows}

\* strategy_type, analysis = analyze_collection_structure(parsed_df)
Analyze ==
    /\ mig_pc = "idle"
    /\ strategy_type' = analyze_collection_structure(collection_df).type
    /\ mig_pc' = "analyzed"
    /\ UNCHANGED <<collection_df, pinning_strategy, pending_assets, image_cids_to_pin,
                   metadata_cids_to_pin, pin_results, pin_calls, mig_i>>
    /\ UNCHANGED <<pinVars, verVars, clnVars, bldVars>>

InitAnalyze ==
    /\ collection_df \in AnalyzerFrames
    /\ pinning_strategy = "auto"
    /\ mig_pc = "idle"
    /\ pending_assets = <<>>
    /\ strategy_type = "none"
    /\ image_cids_to_pin = <<>>
    /\ metadata_cids_to_pin = <<>>
    /\ pin_results = [c \in AllCids |-> NoPinResult]
    /\ pin_calls = <<>>
    /\ mig_i = 1
    /\ PinIdleInit /\ VerIdleInit /\ ClnIdleInit /\ BldIdleInit

NextAnalyze == Analyze

SpecAnalyze == InitAnalyze /\ [][NextAnalyze]_vars

(***************************************************************************)
(* Claims about the Structure Analyzer (checked under SpecAnalyze)         *)
(***************************************************************************)
\* U, the number of distinct image CIDs, and T, the number of records
DistinctCount == Cardinality({collection_df[i].image_cid : i \in 1..Len(collection_df)})

RecordCount == Len(collection_df)

\* some record carries a non-empty file path
SomeFilePath == \E i \in 1..Len(collection_df) : collection_df[i].image_file_path # ""

\* the classification in the claim's words
ClaimedType ==
    IF RecordCount = 0 THEN "none"
    ELSE IF SomeFilePath /\ DistinctCount < RecordCount THEN "directory_based"
    ELSE IF DistinctCount = RecordCount THEN "individual_cids"
    ELSE "mixed"

\* the number of image CIDs that occur in more than one record
SharedCids ==
    Cardinality({c \in AnalyzedCids :
        \E i, j \in 1..Len(collection_df) :
            i # j /\ collection_df[i].image_cid = c /\ collection_df[j].image_cid = c})

\* C16: the analyzer returns none for an empty record set, directory_based exactly
\* when some record carries a file path and there are fewer distinct image CIDs than
\* records, individual_cids exactly when it is not directory_based and the two
\* numbers are equal, and mixed otherwise; it reports the two numbers, and for mixed
\* the number of image CIDs that occur in more than one record.
C16_StructureClassification ==
    mig_pc = "analyzed" =>
        LET analysis == analyze_collection_structure(collection_df)
        IN  /\ strategy_type = ClaimedType
            /\ analysis.type = strategy_type
            /\ strategy_type # "none" =>
                  /\ analysis.total_assets = RecordCount
                  /\ analysis.unique_base_cids = DistinctCount
            /\ strategy_type = "mixed" => analysis.duplicated_cids = SharedCids

\* C16 witness: three records, two of them sharing an image CID and one of the three
\* carrying a file path, were classified as directory_based.
C16_Witness ==
    /\ mig_pc = "analyzed"
    /\ RecordCount = 3
    /\ DistinctCount = 2
    /\ Cardinality({i \in 1..3 : collection_df[i].image_file_path # ""}) = 1
    /\ strategy_type = "directory_based"

(***************************************************************************)
(* Pin adapter (utils.py pin_cid -> _pin_with_4everland, validate_api_key  *)
(* -> _validate_4everland) against a pinning service.  The service holds,  *)
(* per CID, the number of pin requests it accepted.  A response is an HTTP *)
(* status code; 0 stands for a request that raised (timeout, connection).  *)
(***************************************************************************)
MaxPinsPerCid == 2

\* the well-known CID validate_api_key pins as a test
TestCid == "T"
PinnableCids == {"X", "Y", TestCid}

\* What the service may answer to POST /pins for cid: it accepts the request (a
\* first pin, or one more pin request for a CID it already holds), reports the CID as
\* already pinned (409), rejects the credential (401), fails (500), or the request
\* raises.
ServiceAnswers(cid) ==
    (IF svc_pins[cid] < MaxPinsPerCid THEN {200, 201, 202} ELSE {})
        \cup (IF svc_pins[cid] > 0 THEN {409} ELSE {})
        \cup {401, 500, 0}

\* the service's pins after it answered http to a pin request for cid
ServiceAfter(cid, http) ==
    IF http \in {200, 201, 202} THEN [svc_pins EXCEPT ![cid] = @ + 1] ELSE svc_pins

\* _pin_with_4everland: the success flag for a response
PinSuccess(http) == http \in {200, 201, 202}

\* _validate_4everland: the validity flag for a response
ValidateSuccess(http) == http \in {200, 201, 202} \/ http = 409

\* pin_cid(service, api_key, cid)
PinCid ==
    /\ \E cid \in PinnableCids \ {TestCid} : \E http \in ServiceAnswers(cid) :
          /\ pin_last' = [op |-> "pin", cid |-> cid, http |-> http,
                          already |-> svc_pins[cid] > 0, success |-> PinSuccess(http)]
          /\ svc_pins' = ServiceAfter(cid, http)
    /\ UNCHANGED <<migVars, verVars, clnVars, bldVars>>

\* validate_api_key(service, api_key): pins the test CID
ValidateApiKey ==
    /\ \E http \in ServiceAnswers(TestCid) :
          /\ pin_last' = [op |-> "validate", cid |-> TestCid, http |-> http,
                          already |-> svc_pins[TestCid] > 0,
                          success |-> ValidateSuccess(http)]
          /\ svc_pins' = ServiceAfter(TestCid, http)
    /\ UNCHANGED <<migVars, verVars, clnVars, bldVars>>

InitPin ==
    /\ svc_pins \in [PinnableCids -> 0..1]
    /\ pin_last = [op |-> "none", cid |-> "", http |-> 0, already |-> FALSE,
                   success |-> FALSE]
    /\ MigIdleInit /\ VerIdleInit /\ ClnIdleInit /\ BldIdleInit

NextPin ==
    \/ PinCid
    \/ ValidateApiKey

SpecPin == InitPin /\ [][NextPin]_vars

(***************************************************************************)
(* Claims about the pin adapter (checked under SpecPin)                    *)
(***************************************************************************)
\* C6: pin_cid on a CID that the service reports as already pinned returns
\* success = true.
C6_IdempotentPin ==
    (pin_last.op = "pin" /\ pin_last.already /\ pin_last.http = 409) => pin_last.success


(***************************************************************************)
(* Verification Engine (utils.py verify_pinned_cids, _stream_verify_cids,  *)
(* _individual_lookup_limited, verify_cleanup_success) against the pin     *)
(* listing of the service.  The inventory does not change during a run.    *)
(* The sizes of the code (2000 pins per page, 200 pins per individual      *)
(* lookup, 50/100/250/500 pages for up to 500/1000/2500/more targets) are  *)
(* scaled down, keeping their order.                                       *)
(***************************************************************************)
MaxInventory == 3
MaxRetries == 1

\* page_size = 2000
page_size == 2
\* params={'limit': 200} of an individual lookup
individual_limit == 1
\* the collection sizes 500, 1000, 2500 that select the page limit
SmallCollection == 1
MediumCollection == 2
LargeCollection == 3
\* the page limits 50, 100, 250, 500
SmallPages == 1
MediumPages == 2
LargePages == 3
HugePages == 4

max_pages(n) ==
    IF n <= SmallCollection THEN SmallPages
    ELSE IF n <= MediumCollection THEN MediumPages
    ELSE IF n <= LargeCollection THEN LargePages
    ELSE HugePages

\* pin.get('status', 'unknown'): the statuses a listed pin may carry
PinStatuses == {"pinned", "queued", "pinning", "processing", "failed", "unknown"}

\* valid_statuses
IsValidStatusWithFailed(status) ==
    status \in {"pinned", "queued", "pinning", "processing", "failed"}

IsValidStatus(status) == status \in {"pinned", "queued", "pinning", "processing"}

\* the target lists handed to the engine; "O" is a CID nobody asks for
TargetLists == {<<>>, <<"A">>, <<"B">>, <<"A", "B">>, <<"B", "A">>, <<"A", "A">>}
ListedPins ==
    [cid : {"A"}, status : PinStatuses]
        \cup [cid : {"B"}, status : {"pinned", "failed"}]
        \cup {[cid |-> "O", status |-> "pinned"]}

\* GET /pins?limit=..&offset=..: the page of the listing
ListPins(limit, off) ==
    IF off >= Len(inventory) THEN <<>>
    ELSE SubSeq(inventory, off + 1, Min2(off + limit, Len(inventory)))

\* the body of "for pin in results" without the test "pin_cid in cids_set"
ProcessPinAnyCid(acc, pin, cids_set) ==
    [found |-> IF pin.cid \in DOMAIN acc.found THEN acc.found
               ELSE (pin.cid :> pin.status) @@ acc.found,
     counts |-> IF pin.cid \in DOMAIN acc.counts
                THEN [acc.counts EXCEPT ![pin.cid] = @ + 1]
                ELSE (pin.cid :> 1) @@ acc.counts]

\* the body of "for pin in results" for one pin
ProcessPin(acc, pin, cids_set) ==
    IF pin.cid \in cids_set
    THEN [found |-> IF pin.cid \in DOMAIN acc.found THEN acc.found
                    ELSE (pin.cid :> pin.status) @@ acc.found,
          counts |-> IF pin.cid \in DOMAIN acc.counts
                     THEN [acc.counts EXCEPT ![pin.cid] = @ + 1]
                     ELSE (pin.cid :> 1) @@ acc.counts]
    ELSE acc

RECURSIVE ProcessPage(_, _, _)
ProcessPage(results, acc, cids_set) ==
    IF results = <<>> THEN acc
    ELSE ProcessPage(Tail(results), ProcessPin(acc, Head(results), cids_set), cids_set)

\* len(found_cids) >= len(cids_set), never true
AllFoundStrict(found, cids_set) == Cardinality(DOMAIN found) > Cardinality(cids_set)

\* len(found_cids) >= len(cids_set)
AllFound(found, cids_set) == Cardinality(DOMAIN found) >= Cardinality(cids_set)

\* mutant: a loop that goes on until every target is found, whatever the page count
LoopConditionNoCap(pages, found) == ~AllFound(found, Range(cids_to_check))

\* the while condition of the streaming loop
LoopCondition(pages, found) ==
    /\ pages < max_pages(Len(cids_to_check))
    /\ ~AllFound(found, Range(cids_to_check))

\* where the function goes when an iteration ends without a break
AfterIteration(pages, found) == IF LoopCondition(pages, found) THEN "scan" ELSE "post"

\* missing_cids
MissingCids(found) ==
    SelectSeq(cids_to_check, LAMBDA c : c \notin DOMAIN found)

\* a caller hands a target list to the engine; both callers return at once on an
\* empty list
VerifyStart ==
    /\ ver_pc = "idle"
    /\ IF cids_to_check = <<>>
       THEN /\ ver_pc' = "returned"
            /\ caller_ret' = IF ver_caller = "verify_pinned_cids"
                             THEN [raised |-> FALSE, value |-> <<0, 0, <<>>, "None">>]
                             ELSE [raised |-> FALSE,
                                   value |-> [success |-> TRUE, verified_cids |-> 0,
                                              missing_cids |-> 0,
                                              missing_details |-> <<>>]]
       ELSE /\ ver_pc' = AfterIteration(0, <<>>)
            /\ UNCHANGED caller_ret
    /\ offset' = 0
    /\ pages_processed' = 0
    /\ found_cids' = <<>>
    /\ duplicate_counts' = <<>>
    /\ UNCHANGED <<inventory, cids_to_check, ver_caller, retries, page_fetches,
                   individual_results, ver_ret>>
    /\ UNCHANGED <<migVars, pinVars, clnVars, bldVars>>

\* one iteration of the loop whose GET answered 200
FetchPage ==
    /\ ver_pc = "scan"
    /\ LET results == ListPins(page_size, offset)
           acc == ProcessPage(results, [found |-> found_cids, counts |-> duplicate_counts],
                              Range(cids_to_check))
       IN  /\ page_fetches' = page_fetches + 1
           /\ IF results = <<>>
              THEN /\ ver_pc' = "post"
                   /\ UNCHANGED <<found_cids, duplicate_counts, pages_processed, offset>>
              ELSE /\ found_cids' = acc.found
                   /\ duplicate_counts' = acc.counts
                   /\ pages_processed' = pages_processed + 1
                   /\ offset' = offset + Len(results)
                   /\ ver_pc' = IF AllFound(acc.found, Range(cids_to_check)) THEN "post"
                                ELSE IF Len(results) < page_size THEN "post"
                                ELSE AfterIteration(pages_processed + 1, acc.found)
    /\ UNCHANGED <<inventory, cids_to_check, ver_caller, retries, individual_results,
                   ver_ret, caller_ret>>
    /\ UNCHANGED <<migVars, pinVars, clnVars, bldVars>>

\* one iteration whose GET answered 429: sleep and try again
FetchRateLimited ==
    /\ ver_pc = "scan"
    /\ retries < MaxRetries
    /\ retries' = retries + 1
    /\ UNCHANGED <<inventory, cids_to_check, ver_caller, ver_pc, offset, pages_processed,
                   found_cids, duplicate_counts, page_fetches, individual_results,
                   ver_ret, caller_ret>>
    /\ UNCHANGED <<migVars, pinVars, clnVars, bldVars>>

\* lines 1213-1215: the time limit (max_time) is over at the top of an iteration and
\* the loop breaks
FetchTimeLimit ==
    /\ ver_pc = "scan"
    /\ ver_pc' = "post_timeout"
    /\ UNCHANGED <<inventory, cids_to_check, ver_caller, offset, pages_processed,
                   found_cids, duplicate_counts, retries, page_fetches,
                   individual_results, ver_ret, caller_ret>>
    /\ UNCHANGED <<migVars, pinVars, clnVars, bldVars>>

\* one iteration that breaks: the GET answered 401 or another error, or the request
\* raised
FetchBreak ==
    /\ ver_pc = "scan"
    /\ ver_pc' = "post"
    /\ UNCHANGED <<inventory, cids_to_check, ver_caller, offset, pages_processed,
                   found_cids, duplicate_counts, retries, page_fetches,
                   individual_results, ver_ret, caller_ret>>
    /\ UNCHANGED <<migVars, pinVars, clnVars, bldVars>>

\* the numbers of missing CIDs 100 and 500 that select the individual limit, and the
\* limits 300 and 500
SmallMissing == 0
MediumMissing == 2
MediumLookups == 1
LargeLookups == 2

\* max_individual of _individual_lookup_limited
max_individual(n) ==
    IF n <= SmallMissing THEN n
    ELSE IF n <= MediumMissing THEN Min2(n, MediumLookups)
    ELSE Min2(n, LargeLookups)

\* the result of one individual lookup of cid: the first listed pin with that CID
\* among the pins the GET returned, or an error; a CID that is not among them keeps
\* the entry it already has in results
LookupResult(cid, ok, results) ==
    LET pins == ListPins(individual_limit, 0)
        hits == {i \in 1..Len(pins) : pins[i].cid = cid}
    IN  IF ~ok THEN [is_pinned |-> FALSE, status |-> "API error"]
        ELSE IF hits = {}
        THEN IF cid \in DOMAIN results THEN results[cid]
             ELSE [is_pinned |-> FALSE, status |-> "Not in recent pins"]
        ELSE LET first == CHOOSE i \in hits : \A j \in hits : i <= j
             IN  [is_pinned |-> IsValidStatus(pins[first].status),
                  status |-> pins[first].status]

\* _individual_lookup_limited(api_key, missing): the dict cid -> (is_pinned, status)
RECURSIVE IndividualLookupLimited(_, _, _, _)
IndividualLookupLimited(missing, oks, i, results) ==
    IF i > Len(missing) THEN results
    ELSE IndividualLookupLimited(missing, oks, i + 1,
             (missing[i] :> (IF i <= max_individual(Len(missing))
                             THEN LookupResult(missing[i], oks[i], results)
                             ELSE [is_pinned |-> FALSE, status |-> "Not checked"]))
             @@ results)

\* the merge of the individual results into found_cids
MergeIndividual(found, results) ==
    LET pinned == {c \in DOMAIN results : results[c].is_pinned}
    IN  [c \in DOMAIN found \cup pinned |->
            IF c \in pinned THEN results[c].status ELSE found[c]]

\* "if missing_cids and pages_processed >= max_pages"
NeedsIndividualLookup ==
    /\ MissingCids(found_cids) # <<>>
    /\ pages_processed >= max_pages(Len(cids_to_check))

\* the loop is over
AfterLoop == ver_pc \in {"post", "post_timeout"}

\* the individual lookups of the CIDs the scan did not find
IndividualLookup ==
    /\ AfterLoop
    /\ NeedsIndividualLookup
    /\ LET missing == MissingCids(found_cids)
       IN  \E oks \in [1..Len(missing) -> BOOLEAN] :
              LET results == IndividualLookupLimited(missing, oks, 1, <<>>)
              IN  /\ individual_results' = results
                  /\ found_cids' = MergeIndividual(found_cids, results)
    /\ ver_pc' = "build"
    /\ UNCHANGED <<inventory, cids_to_check, ver_caller, offset, pages_processed,
                   duplicate_counts, retries, page_fetches, ver_ret, caller_ret>>
    /\ UNCHANGED <<migVars, pinVars, clnVars, bldVars>>

\* the entry of details for one target
DetailOf(cid) ==
    IF cid \in DOMAIN found_cids
    THEN [cid |-> cid, is_pinned |-> IsValidStatus(found_cids[cid]),
          status |-> found_cids[cid],
          copies |-> IF cid \in DOMAIN duplicate_counts /\ duplicate_counts[cid] > 1
                     THEN duplicate_counts[cid] ELSE 1]
    ELSE [cid |-> cid, is_pinned |-> FALSE, status |-> "Not found", copies |-> 0]

\* sum(... for count in duplicate_counts.values() if count > 1)
DuplicatedCids == {c \in DOMAIN duplicate_counts : duplicate_counts[c] > 1}

\* total_waste with every copy counted, the first included
RECURSIVE TotalWasteAllCopies(_)
TotalWasteAllCopies(cs) ==
    IF cs = {} THEN 0
    ELSE LET c == CHOOSE x \in cs : TRUE
         IN  duplicate_counts[c] + TotalWasteAllCopies(cs \ {c})

RECURSIVE TotalWaste(_)
TotalWaste(cs) ==
    IF cs = {} THEN 0
    ELSE LET c == CHOOSE x \in cs : TRUE
         IN  (duplicate_counts[c] - 1) + TotalWaste(cs \ {c})

\* mutant: a streaming report that carries the instances of the listing
PartialReportWithDetails ==
    IF DuplicatedCids = {} THEN [present |-> FALSE]
    ELSE [present |-> TRUE,
          total_pins |-> pages_processed * page_size,
          unique_cids |-> Cardinality(DOMAIN found_cids),
          duplicate_cids |-> Cardinality(DuplicatedCids),
          total_duplicates |-> TotalWaste(DuplicatedCids),
          details |-> LET cids == SelectSeq(Unique([i \in 1..Len(inventory) |->
                                                      inventory[i].cid]),
                                            LAMBDA c : c \in DuplicatedCids)
                      IN  [i \in 1..Len(cids) |->
                              [cid |-> cids[i],
                               instances |->
                                   LET own == SelectSeq(inventory,
                                                  LAMBDA pin : pin.cid = cids[i])
                                   IN  [k \in 1..Len(own) |->
                                           [request_id |-> own[k].requestid,
                                            status |-> own[k].status,
                                            created |-> own[k].created]]]],
          partial |-> TRUE]

\* the partial duplicate report, or None
PartialReport ==
    IF DuplicatedCids = {} THEN [present |-> FALSE]
    ELSE [present |-> TRUE,
          total_pins |-> pages_processed * page_size,
          unique_cids |-> Cardinality(DOMAIN found_cids),
          duplicate_cids |-> Cardinality(DuplicatedCids),
          total_duplicates |-> TotalWaste(DuplicatedCids),
          details |-> <<>>,
          partial |-> TRUE]

\* "Build results" and the return of _stream_verify_cids
BuildResults ==
    /\ \/ ver_pc = "build"
       \/ AfterLoop /\ ~NeedsIndividualLookup
    /\ LET details == [i \in 1..Len(cids_to_check) |-> DetailOf(cids_to_check[i])]
           verified_count == Cardinality({i \in 1..Len(details) : details[i].is_pinned})
       IN  ver_ret' = <<verified_count, details, PartialReport>>
    /\ ver_pc' = "done"
    /\ UNCHANGED <<inventory, cids_to_check, ver_caller, offset, pages_processed,
                   found_cids, duplicate_counts, retries, page_fetches,
                   individual_results, caller_ret>>
    /\ UNCHANGED <<migVars, pinVars, clnVars, bldVars>>

\* verify_pinned_cids: "verified_count, details, duplicate_report = ..." and its return
\* verify_cleanup_success: "verified_count, total_cids, details, _ = ..." and the
\* report it builds ("cid in details" tests a string against a list of dicts, so every
\* CID goes to missing_details); an unpacking of a tuple of another length raises
\* ValueError
CallerReturn ==
    /\ ver_pc = "done"
    /\ caller_ret' =
          IF ver_caller = "verify_pinned_cids"
          THEN IF Len(ver_ret) = 3
               THEN [raised |-> FALSE,
                     value |-> <<ver_ret[1], Len(cids_to_check), ver_ret[2], ver_ret[3]>>]
               ELSE [raised |-> TRUE, value |-> "ValueError"]
          ELSE IF Len(ver_ret) = 4
               THEN [raised |-> FALSE,
                     value |-> [success |-> ver_ret[1] = ver_ret[2],
                                verified_cids |-> ver_ret[1],
                                missing_cids |-> ver_ret[2] - ver_ret[1],
                                missing_details |-> cids_to_check]]
               ELSE [raised |-> TRUE, value |-> "ValueError"]
    /\ ver_pc' = "returned"
    /\ UNCHANGED <<inventory, cids_to_check, ver_caller, offset, pages_processed,
                   found_cids, duplicate_counts, retries, page_fetches,
                   individual_results, ver_ret>>
    /\ UNCHANGED <<migVars, pinVars, clnVars, bldVars>>

NoDuplicates(seq) == \A i, j \in 1..Len(seq) : seq[i] = seq[j] => i = j

InitVerify ==
    /\ \E n \in 0..MaxInventory : \E pins \in [1..n -> ListedPins] :
          inventory = [i \in 1..n |-> [cid |-> pins[i].cid, status |-> pins[i].status,
                                       created |-> 1, requestid |-> i]]
    /\ ver_caller \in {"verify_pinned_cids", "verify_cleanup_success"}
    /\ cids_to_check \in TargetLists
    /\ ver_caller = "verify_cleanup_success" => NoDuplicates(cids_to_check)
    /\ ver_pc = "idle"
    /\ offset = 0
    /\ pages_processed = 0
    /\ found_cids = <<>>
    /\ duplicate_counts = <<>>
    /\ retries = 0
    /\ page_fetches = 0
    /\ individual_results = <<>>
    /\ ver_ret = <<>>
    /\ caller_ret = <<>>
    /\ MigIdleInit /\ PinIdleInit /\ ClnIdleInit /\ BldIdleInit

NextVerify ==
    \/ VerifyStart
    \/ FetchPage
    \/ FetchRateLimited
    \/ FetchTimeLimit
    \/ FetchBreak
    \/ IndividualLookup
    \/ BuildResults
    \/ CallerReturn

SpecVerify == InitVerify /\ [][NextVerify]_vars

(***************************************************************************)
(* Claims about the Verification Engine (checked under SpecVerify)         *)
(***************************************************************************)
\* the pins the streaming loop has read
Scanned == SubSeq(inventory, 1, offset)

Occurrences(pins, cid) == {i \in 1..Len(pins) : pins[i].cid = cid}

\* the status of the first occurrence of cid in pins
FirstStatus(pins, cid) ==
    pins[CHOOSE i \in Occurrences(pins, cid) : \A j \in Occurrences(pins, cid) : i <= j].status

\* every target occurs within the first k pages of the inventory
TargetsWithin(k) ==
    \A c \in Range(cids_to_check) :
        Occurrences(SubSeq(inventory, 1, Min2(k * page_size, Len(inventory))), c) # {}

\* C2: if every target CID occurs within the first k pages of the remote inventory,
\* the streaming loop makes at most k successful page fetches, in every state of the
\* run and so also when it has stopped.  A page fetch is a GET of the streaming loop;
\* the individual lookups after the loop are not counted.
C2_EarlyExit ==
    \A k \in 0..MaxInventory : TargetsWithin(k) => page_fetches <= k

\* C2 witness: two targets, both on the first page of an inventory that has a second
\* page; the run returned after one page fetch.
C2_Witness ==
    /\ ver_pc = "returned"
    /\ cids_to_check = <<"A", "B">>
    /\ Len(inventory) > page_size
    /\ TargetsWithin(1)
    /\ page_fetches = 1

\* C10: a target is reported is_pinned exactly when it occurs among the pins read
\* and the status of its first occurrence in listing order is pinned, queued, pinning
\* or processing; the status recorded for a CID is always that of its first
\* occurrence; verified_count is the number of entries reported is_pinned.
C10_VerifiedCountRule ==
    /\ \A c \in DOMAIN found_cids :
          /\ Occurrences(Scanned, c) # {}
          /\ found_cids[c] = FirstStatus(Scanned, c)
    /\ (ver_pc \in {"done", "returned"} /\ cids_to_check # <<>>) =>
          /\ Len(ver_ret[2]) = Len(cids_to_check)
          /\ \A i \in 1..Len(cids_to_check) :
                /\ ver_ret[2][i].cid = cids_to_check[i]
                /\ ver_ret[2][i].is_pinned <=>
                      /\ Occurrences(Scanned, cids_to_check[i]) # {}
                      /\ FirstStatus(Scanned, cids_to_check[i])
                             \in {"pinned", "queued", "pinning", "processing"}
          /\ ver_ret[1] =
                Cardinality({i \in 1..Len(cids_to_check) : ver_ret[2][i].is_pinned})

\* C10 witness: A is listed as processing and then as failed, B as failed; the run
\* reported A pinned, B not pinned and a verified count of 1.
C10_Witness ==
    /\ ver_pc = "returned"
    /\ cids_to_check = <<"A", "B">>
    /\ Len(Scanned) = 3
    /\ Scanned[1].cid = "A" /\ Scanned[1].status = "processing"
    /\ Scanned[2].cid = "A" /\ Scanned[2].status = "failed"
    /\ Scanned[3].cid = "B" /\ Scanned[3].status = "failed"
    /\ ver_ret[2][1].is_pinned /\ ~ver_ret[2][2].is_pinned
    /\ ver_ret[1] = 1

\* C3: verify_cleanup_success, called with the CIDs of the cleanup results, returns a
\* report (it does not raise) whose success flag is true exactly when every cleaned
\* CID is still found pinned, and whose missing_details list the CIDs not found.
C3_CleanupVerificationReport ==
    (ver_caller = "verify_cleanup_success" /\ ver_pc = "returned") =>
        /\ ~caller_ret.raised
        /\ caller_ret.value.success <=>
              \A c \in Range(cids_to_check) :
                  /\ Occurrences(Scanned, c) # {}
                  /\ IsValidStatus(FirstStatus(Scanned, c))
        /\ Range(caller_ret.value.missing_details) =
              {c \in Range(cids_to_check) : Occurrences(Scanned, c) = {}}



\* the cap of the claim for n targets: SmallPages (50) up to SmallCollection (500)
\* targets, MediumPages (100) up to MediumCollection (1000), LargePages (250) up to
\* LargeCollection (2500), HugePages (500) above
PageCap(n) ==
    CASE n <= SmallCollection -> SmallPages
      [] n > SmallCollection /\ n <= MediumCollection -> MediumPages
      [] n > MediumCollection /\ n <= LargeCollection -> LargePages
      [] OTHER -> HugePages

\* C19: the number of pages processed by the streaming verification never exceeds
\* the cap fixed from the number of targets, whatever the inventory lists and
\* whatever the listing answers.
C19_PageCountCap ==
    /\ pages_processed <= PageCap(Len(cids_to_check))
    /\ ver_pc = "scan" => pages_processed < PageCap(Len(cids_to_check))

\* C19 witness: with one target the cap is SmallPages; the loop stopped at the cap
\* with the target unfound although the inventory has more pins than it read.
C19_Witness ==
    /\ ver_pc = "post"
    /\ Len(cids_to_check) = 1
    /\ pages_processed = SmallPages
    /\ MissingCids(found_cids) # <<>>
    /\ offset < Len(inventory)


\* the scan ended because a budget was exhausted: the time limit broke the loop, or
\* the page count reached its cap
BudgetExhausted ==
    \/ ver_pc = "post_timeout"
    \/ ver_pc = "post" /\ pages_processed >= PageCap(Len(cids_to_check))

\* the number of individual lookups the claim allows for n missing CIDs
LookupAllowance(n) ==
    IF n <= SmallMissing THEN n
    ELSE IF n <= MediumMissing THEN Min2(n, MediumLookups)
    ELSE Min2(n, LargeLookups)

\* the CIDs that the individual lookups looked up, and those they marked not checked
LookedUp == {c \in DOMAIN individual_results : individual_results[c].status # "Not checked"}

NotChecked == {c \in DOMAIN individual_results : individual_results[c].status = "Not checked"}

\* C20: whenever the scan has ended because the page cap or the time limit was
\* reached and a target is unresolved, the engine goes on to the individual lookups;
\* the lookups cover every unresolved CID, look up no more of them than the limit for
\* their number, and mark the others as not checked.
C20_BoundedFallbackLookups ==
    /\ (AfterLoop /\ BudgetExhausted /\ MissingCids(found_cids) # <<>>) =>
          ENABLED IndividualLookup
    /\ ver_pc = "build" =>
          /\ Cardinality(LookedUp) <= LookupAllowance(Cardinality(DOMAIN individual_results))
          /\ Cardinality(LookedUp) <= LargeLookups
          /\ LookedUp \cup NotChecked = DOMAIN individual_results

\* the target CID set (cids_set)
TargetSet == Range(cids_to_check)

\* C22: whatever the inventory lists, the keys of found_cids and of duplicate_counts
\* are target CIDs, so neither map holds more entries than there are targets.
C22_TargetSizedAccumulator ==
    /\ DOMAIN found_cids \subseteq TargetSet
    /\ DOMAIN duplicate_counts \subseteq TargetSet
    /\ Cardinality(DOMAIN found_cids) <= Cardinality(TargetSet)
    /\ Cardinality(DOMAIN duplicate_counts) <= Cardinality(TargetSet)

\* the loop read a page that lists a CID nobody asked for next to a target, and goes on
C22_Witness ==
    /\ ver_pc = "scan"
    /\ offset >= 2
    /\ \E i \in 1..offset : inventory[i].cid \notin TargetSet
    /\ DOMAIN found_cids # {}
    /\ DOMAIN duplicate_counts = DOMAIN found_cids

(***************************************************************************)
(* Duplicate Cleanup (utils.py _get_4everland_pin_lookup_with_duplicates,  *)
(* cleanup_duplicate_pins, _delete_4everland_pin).  A listed pin carries   *)
(* its CID, status, creation time and request id; request ids are unique   *)
(* and are integers here, their order standing for the order of the id     *)
(* strings.  A creation time of 0 stands for a 'created' field that        *)
(* datetime.fromisoformat cannot parse.                                    *)
(***************************************************************************)
MaxPins == 3

\* the pins an account may list: CID Q in every status, pinned and failed also at a
\* later creation time, Q without a readable creation time, and a second CID R
CleanupPins ==
    [cid : {"Q"}, status : PinStatuses, created : {1}]
        \cup [cid : {"Q"}, status : {"pinned", "failed"}, created : {2}]
        \cup {[cid |-> "Q", status |-> "pinned", created |-> 0]}
        \cup {[cid |-> "R", status |-> "pinned", created |-> 1]}

\* the instance dict the scan appends for a pin
InstanceOf(pin) ==
    [request_id |-> pin.requestid, status |-> pin.status, created |-> pin.created]

\* cid_counts / duplicate_details, in order of first appearance
CidsListed(pins) == Unique([i \in 1..Len(pins) |-> pins[i].cid])

InstancesOf(pins, cid) ==
    LET own == SelectSeq(pins, LAMBDA pin : pin.cid = cid)
    IN  [i \in 1..Len(own) |-> InstanceOf(own[i])]

RECURSIVE SumSeq(_)
SumSeq(ns) == IF ns = <<>> THEN 0 ELSE Head(ns) + SumSeq(Tail(ns))

\* the duplicate report of a full scan that read all_results
FullReport(all_results) ==
    LET cids == CidsListed(all_results)
        duplicates == SelectSeq(cids, LAMBDA c : Len(InstancesOf(all_results, c)) > 1)
        counts == [i \in 1..Len(duplicates) |-> Len(InstancesOf(all_results, duplicates[i]))]
    IN  [present |-> TRUE,
         total_pins |-> Len(all_results),
         unique_cids |-> Len(cids),
         duplicate_cids |-> Len(duplicates),
         total_duplicates |-> SumSeq(counts) - Len(duplicates),
         details |-> [i \in 1..Len(duplicates) |->
                         [cid |-> duplicates[i],
                          instances |-> InstancesOf(all_results, duplicates[i])]]]

NoReport == [present |-> FALSE, total_pins |-> 0, unique_cids |-> 0, duplicate_cids |-> 0,
             total_duplicates |-> 0, details |-> <<>>]

\* what the service may answer to a GET /pins of the full scan: 200, 429 (rate limit),
\* 401 or another error
ScanAnswers == {200, 429, 401, 500}

\* utils.py 2436-2453: only a 200 answer lets the scan go on
ScanPageOk(http) == http = 200

\* get_full_duplicate_report_for_cleanup: every page answers 200 and the report is
\* built, or a page answers something else and the scan returns None; scan_status is
\* the answer to the last GET
FullScan ==
    /\ cln_pc = "idle"
    /\ \E http \in ScanAnswers :
          /\ scan_status' = http
          /\ IF ScanPageOk(http)
             THEN /\ duplicate_report' = FullReport(inventory)
                  /\ cln_pc' = "scanned"
             ELSE /\ duplicate_report' = NoReport
                  /\ cln_pc' = "scan_failed"
    /\ UNCHANGED <<inventory, dry_run, cleanup_results, delete_calls, cln_cid_i, cln_del>>
    /\ UNCHANGED <<cids_to_check, ver_caller, ver_pc, offset, pages_processed, found_cids,
                   duplicate_counts, retries, page_fetches, individual_results, ver_ret,
                   caller_ret>>
    /\ UNCHANGED <<migVars, pinVars, bldVars>>

\* status_priority.get(instance['status'], 5)
status_score(status) ==
    CASE status = "pinned" -> 0
      [] status = "queued" -> 1
      [] status = "pinning" -> 2
      [] status = "processing" -> 3
      [] status = "failed" -> 4
      [] OTHER -> 5

\* date_score without the negation: the oldest instance first
date_score_oldest_first(created) == created

\* date_score: -created_date.timestamp(), or 0 when the date does not parse
date_score(created) == IF created = 0 THEN 0 ELSE 0 - created

sort_key(instance) ==
    <<status_score(instance.status), date_score(instance.created), instance.request_id>>

\* the order of the key tuples
KeyLess(a, b) ==
    \/ a[1] < b[1]
    \/ a[1] = b[1] /\ a[2] < b[2]
    \/ a[1] = b[1] /\ a[2] = b[2] /\ a[3] < b[3]

\* sorted(instances, key=sort_key): a stable sort
RECURSIVE InsertInstance(_, _)
InsertInstance(sorted, x) ==
    IF sorted = <<>> THEN <<x>>
    ELSE IF KeyLess(sort_key(x), sort_key(Head(sorted)))
         THEN <<x>> \o sorted
         ELSE <<Head(sorted)>> \o InsertInstance(Tail(sorted), x)

RECURSIVE SortInstances(_, _)
SortInstances(instances, sorted) ==
    IF instances = <<>> THEN sorted
    ELSE SortInstances(Tail(instances), InsertInstance(sorted, Head(instances)))

sorted_instances(instances) == SortInstances(instances, <<>>)

\* delete_instances taken as the whole sorted list
delete_instances_all(sorted) == sorted

\* delete_instances = sorted_instances[1:]
delete_instances(sorted) == Tail(sorted)

\* mutant: a dry run that records no instance as deleted
dry_run_deleted_none(instances) == <<>>

\* lines 2676-2678: a dry run appends every instance of delete_instances to
\* deleted_instances without calling _delete_4everland_pin
dry_run_deleted(instances) == instances

\* the cleanup_results dict at the start of a run
EmptyResults ==
    [success |-> TRUE, deleted_count |-> 0, kept_count |-> 0, failed_deletions |-> 0,
     savings |-> 0, details |-> <<>>, errors |-> <<>>]

NoCidDetails ==
    [cid_details |-> [cid |-> "", total_instances |-> 0,
                      kept_instance |-> [request_id |-> 0, status |-> "", created |-> 0],
                      deleted_instances |-> <<>>, failed_deletions |-> <<>>],
     delete_instances |-> <<>>]

\* cleanup_duplicate_pins(api_key, duplicate_report, dry_run): the early return and
\* the initial cleanup_results
CleanupStart ==
    /\ cln_pc \in {"scanned", "scan_failed", "stored", "cleaned"}
    /\ \E dry \in BOOLEAN : dry_run' = dry
    /\ delete_calls' = <<>>
    /\ cln_cid_i' = 1
    /\ cln_del' = NoCidDetails
    /\ IF ~duplicate_report.present \/ duplicate_report.duplicate_cids = 0
       THEN /\ cleanup_results' = EmptyResults
            /\ cln_pc' = "cleaned"
       ELSE /\ cleanup_results' = EmptyResults
            /\ cln_pc' = "next_cid"
    /\ UNCHANGED <<inventory, duplicate_report, scan_status>>
    /\ UNCHANGED <<cids_to_check, ver_caller, ver_pc, offset, pages_processed, found_cids,
                   duplicate_counts, retries, page_fetches, individual_results, ver_ret,
                   caller_ret>>
    /\ UNCHANGED <<migVars, pinVars, bldVars>>

\* one iteration of "for cid, instances in duplicate_report['details'].items()" up to
\* its first deletePin call; a dry run calls nothing, so its iteration is complete
NextCid ==
    /\ cln_pc = "next_cid"
    /\ cln_cid_i <= Len(duplicate_report.details)
    /\ LET entry == duplicate_report.details[cln_cid_i]
           sorted == sorted_instances(entry.instances)
           cid_details == [cid |-> entry.cid,
                           total_instances |-> Len(entry.instances),
                           kept_instance |-> Head(sorted),
                           deleted_instances |-> <<>>,
                           failed_deletions |-> <<>>]
       IN  IF Len(entry.instances) <= 1
           THEN /\ cln_cid_i' = cln_cid_i + 1
                /\ UNCHANGED <<cleanup_results, cln_del, cln_pc>>
           ELSE IF dry_run
           THEN /\ cleanup_results' =
                      [cleanup_results EXCEPT
                          !.kept_count = @ + 1,
                          !.deleted_count =
                              @ + Len(dry_run_deleted(delete_instances(sorted))),
                          !.details = Append(@, [cid_details EXCEPT
                              !.deleted_instances =
                                  dry_run_deleted(delete_instances(sorted))])]
                /\ cln_cid_i' = cln_cid_i + 1
                /\ UNCHANGED <<cln_del, cln_pc>>
           ELSE /\ cleanup_results' = [cleanup_results EXCEPT !.kept_count = @ + 1]
                /\ cln_del' = [cid_details |-> cid_details,
                               delete_instances |-> delete_instances(sorted)]
                /\ cln_pc' = "deleting"
                /\ UNCHANGED cln_cid_i
    /\ UNCHANGED <<inventory, dry_run, duplicate_report, delete_calls, scan_status>>
    /\ UNCHANGED <<cids_to_check, ver_caller, ver_pc, offset, pages_processed, found_cids,
                   duplicate_counts, retries, page_fetches, individual_results, ver_ret,
                   caller_ret>>
    /\ UNCHANGED <<migVars, pinVars, bldVars>>

\* what the service may answer to DELETE /pins/{request_id}; 0 is a request that raised
DeleteAnswers(request_id) ==
    IF \E i \in 1..Len(inventory) : inventory[i].requestid = request_id
    THEN {200, 202, 403, 0}
    ELSE {404}

\* _delete_4everland_pin: the success flag for a response
DeleteSuccess(http) == http = 200 \/ http = 202

\* the counters after a deletePin call, with a failed call counted as a deletion too
CountDeletionAsDeleted(results, instance, success) ==
    IF success
    THEN [results EXCEPT !.deleted_count = @ + 1]
    ELSE [results EXCEPT !.deleted_count = @ + 1,
                         !.failed_deletions = @ + 1,
                         !.errors = Append(@, instance.request_id)]

\* utils.py 2663-2672: the counters of cleanup_results after a deletePin call
CountDeletion(results, instance, success) ==
    IF success
    THEN [results EXCEPT !.deleted_count = @ + 1]
    ELSE [results EXCEPT !.failed_deletions = @ + 1,
                         !.errors = Append(@, instance.request_id)]

\* one iteration of "for instance in delete_instances" of a live run; after the last
\* one the CID's details are appended.  The text of an error message is left out.
DeletePin ==
    /\ cln_pc = "deleting"
    /\ cln_del.delete_instances # <<>>
    /\ LET instance == Head(cln_del.delete_instances)
           rest == Tail(cln_del.delete_instances)
       IN  \E http \in DeleteAnswers(instance.request_id) :
              LET cid_details ==
                      IF DeleteSuccess(http)
                      THEN [cln_del.cid_details EXCEPT
                               !.deleted_instances = Append(@, instance)]
                      ELSE [cln_del.cid_details EXCEPT
                               !.failed_deletions =
                                   Append(@, [instance |-> instance])]
                  counted == CountDeletion(cleanup_results, instance, DeleteSuccess(http))
              IN  /\ delete_calls' = Append(delete_calls, instance.request_id)
                  /\ inventory' =
                        IF DeleteSuccess(http)
                        THEN SelectSeq(inventory,
                                       LAMBDA pin : pin.requestid # instance.request_id)
                        ELSE inventory
                  /\ IF rest = <<>>
                     THEN /\ cleanup_results' =
                                [counted EXCEPT !.details = Append(@, cid_details)]
                          /\ cln_del' = NoCidDetails
                          /\ cln_cid_i' = cln_cid_i + 1
                          /\ cln_pc' = "next_cid"
                     ELSE /\ cleanup_results' = counted
                          /\ cln_del' = [cid_details |-> cid_details,
                                         delete_instances |-> rest]
                          /\ UNCHANGED <<cln_cid_i, cln_pc>>
    /\ UNCHANGED <<dry_run, duplicate_report, scan_status>>
    /\ UNCHANGED <<cids_to_check, ver_caller, ver_pc, offset, pages_processed, found_cids,
                   duplicate_counts, retries, page_fetches, individual_results, ver_ret,
                   caller_ret>>
    /\ UNCHANGED <<migVars, pinVars, bldVars>>

\* the end of the loop, the savings (in units of the monthly price of one pin) and the
\* return of cleanup_results
CleanupFinish ==
    /\ cln_pc = "next_cid"
    /\ cln_cid_i > Len(duplicate_report.details)
    /\ cleanup_results' =
          [cleanup_results EXCEPT
              !.savings = cleanup_results.deleted_count - cleanup_results.failed_deletions]
    /\ cln_pc' = "cleaned"
    /\ UNCHANGED <<inventory, dry_run, duplicate_report, delete_calls, cln_cid_i, cln_del,
                   scan_status>>
    /\ UNCHANGED <<cids_to_check, ver_caller, ver_pc, offset, pages_processed, found_cids,
                   duplicate_counts, retries, page_fetches, individual_results, ver_ret,
                   caller_ret>>
    /\ UNCHANGED <<migVars, pinVars, bldVars>>

InitCleanup ==
    /\ \E n \in 0..MaxPins : \E pins \in [1..n -> CleanupPins] : \E ascending \in BOOLEAN :
          inventory = [i \in 1..n |->
                          [cid |-> pins[i].cid, status |-> pins[i].status,
                           created |-> pins[i].created,
                           requestid |-> IF ascending THEN i ELSE n + 1 - i]]
    /\ cids_to_check = <<>>
    /\ ver_caller = "none"
    /\ ver_pc = "idle"
    /\ offset = 0
    /\ pages_processed = 0
    /\ found_cids = <<>>
    /\ duplicate_counts = <<>>
    /\ retries = 0
    /\ page_fetches = 0
    /\ individual_results = <<>>
    /\ ver_ret = <<>>
    /\ caller_ret = <<>>
    /\ ClnIdleInit
    /\ MigIdleInit /\ PinIdleInit /\ BldIdleInit

NextCleanup ==
    \/ FullScan
    \/ CleanupStart
    \/ NextCid
    \/ DeletePin
    \/ CleanupFinish

SpecCleanup == InitCleanup /\ [][NextCleanup]_vars

(***************************************************************************)
(* Claims about the Duplicate Cleanup (checked under SpecCleanup)          *)
(***************************************************************************)
\* the rank of a status in the claimed order
StatusRank(status) ==
    IF status = "pinned" THEN 1
    ELSE IF status = "queued" THEN 2
    ELSE IF status = "pinning" THEN 3
    ELSE IF status = "processing" THEN 4
    ELSE IF status = "failed" THEN 5
    ELSE 6

\* a comes before b in the claimed order: better status, then newer, then smaller id
\* (an instance without a readable creation time counts as the oldest)
Preferred(a, b) ==
    \/ StatusRank(a.status) < StatusRank(b.status)
    \/ /\ StatusRank(a.status) = StatusRank(b.status)
       /\ a.created > b.created
    \/ /\ StatusRank(a.status) = StatusRank(b.status)
       /\ a.created = b.created
       /\ a.request_id < b.request_id

\* the instances the report lists for cid
ReportInstances(cid) ==
    UNION {Range(duplicate_report.details[i].instances) :
              i \in {j \in 1..Len(duplicate_report.details) :
                        duplicate_report.details[j].cid = cid}}

\* the cid_details built so far: those of the CIDs done and of the CID in progress
DetailsSoFar ==
    IF cln_pc \in {"idle", "scanned", "scan_failed"} THEN {}
    ELSE Range(cleanup_results.details)
            \cup (IF cln_pc = "deleting" THEN {cln_del.cid_details} ELSE {})

\* the instances of a CID's details that the run selected for deletion
SelectedForDeletion(d) ==
    Range(d.deleted_instances)
        \cup {d.failed_deletions[i].instance : i \in 1..Len(d.failed_deletions)}
        \cup (IF cln_pc = "deleting" /\ d = cln_del.cid_details
              THEN Range(cln_del.delete_instances) ELSE {})

\* C4: for every duplicated CID of the report the kept instance is the minimum of the
\* CID's instances under the order (status rank, newest creation time first, smallest
\* request id), and the instances selected for deletion are all the others; when the
\* run has returned, every duplicated CID of the report has been processed.
C4_SurvivorSelection ==
    /\ \A d \in DetailsSoFar :
          /\ d.kept_instance \in ReportInstances(d.cid)
          /\ \A o \in ReportInstances(d.cid) \ {d.kept_instance} :
                Preferred(d.kept_instance, o)
          /\ SelectedForDeletion(d) = ReportInstances(d.cid) \ {d.kept_instance}
    /\ (cln_pc = "cleaned" /\ duplicate_report.present) =>
          {d.cid : d \in DetailsSoFar} =
              {duplicate_report.details[i].cid : i \in 1..Len(duplicate_report.details)}

\* C4 witness: Q is listed as failed, pinned and queued; a finished run kept the
\* pinned instance and selected the two others.
C4_Witness ==
    /\ cln_pc = "cleaned"
    /\ Len(duplicate_report.details) = 1
    /\ LET instances == duplicate_report.details[1].instances
       IN  /\ Len(instances) = 3
           /\ instances[1].status = "failed"
           /\ instances[2].status = "pinned"
           /\ instances[3].status = "queued"
    /\ Len(cleanup_results.details) = 1
    /\ cleanup_results.details[1].kept_instance.status = "pinned"
    /\ Cardinality(SelectedForDeletion(cleanup_results.details[1])) = 2

\* C5: deletePin is never called with the request id of an instance chosen as
\* survivor, and every CID the report lists as duplicated keeps at least one instance
\* in the remote inventory.
C5_SurvivorNeverDeleted ==
    /\ \A d \in DetailsSoFar :
          \A k \in 1..Len(delete_calls) : delete_calls[k] # d.kept_instance.request_id
    /\ cln_pc \notin {"idle", "scan_failed"} =>
          \A i \in 1..Len(duplicate_report.details) :
              \E k \in 1..Len(inventory) :
                  inventory[k].cid = duplicate_report.details[i].cid

\* C5 witness: a live run deleted both spare instances of a CID listed three times
\* and one instance of it is left.
C5_Witness ==
    /\ cln_pc = "cleaned"
    /\ ~dry_run
    /\ Len(delete_calls) = 2
    /\ Len(cleanup_results.details) = 1
    /\ Len(cleanup_results.details[1].deleted_instances) = 2
    /\ Len(inventory) = 1
    /\ inventory[1].requestid = cleanup_results.details[1].kept_instance.request_id


\* the report's entry for cid
ReportEntry(cid) ==
    CHOOSE e \in Range(duplicate_report.details) : e.cid = cid

\* the outcome for one CID of a live run on the current report in which every
\* deletePin call succeeds: the head of the sorted instances is kept and the others
\* are deleted one after the other, in sorted order
LiveOutcome(cid) ==
    LET sorted == sorted_instances(ReportEntry(cid).instances)
    IN  [kept_instance |-> Head(sorted), deleted_instances |-> Tail(sorted)]

\* a run has returned in which no deletion failed
RunWithoutFailure == cln_pc = "cleaned" /\ cleanup_results.failed_deletions = 0

\* C13: a dry run makes no deletePin call, and when a run has returned, dry or live
\* with every deletion successful, the kept instance and the list of deleted
\* instances it reports for each CID are those of the all-successful live run on the
\* same report, and so is its count of deleted pins.
C13_DryRunDeletesNothing ==
    /\ dry_run => delete_calls = <<>>
    /\ RunWithoutFailure =>
          /\ \A k \in 1..Len(cleanup_results.details) :
                LET d == cleanup_results.details[k]
                IN  /\ d.kept_instance = LiveOutcome(d.cid).kept_instance
                    /\ d.deleted_instances = LiveOutcome(d.cid).deleted_instances
          /\ cleanup_results.deleted_count =
                SumSeq([k \in 1..Len(cleanup_results.details) |->
                    Len(LiveOutcome(cleanup_results.details[k].cid).deleted_instances)])

\* C13 witness: a dry run on a report that lists a CID three times has returned; it
\* reports two deleted instances, made no deletePin call and all three pins are
\* still in the inventory.
C13_Witness ==
    /\ cln_pc = "cleaned"
    /\ dry_run
    /\ Len(cleanup_results.details) = 1
    /\ Len(cleanup_results.details[1].deleted_instances) = 2
    /\ cleanup_results.deleted_count = 2
    /\ delete_calls = <<>>
    /\ Len(inventory) = 3

(***************************************************************************)
(* SpecLive: the cleanup flow on accounts that may list two CIDs more than *)
(* once each, so that a cleanup has instances of a second CID to go on     *)
(* with.                                                                   *)
(***************************************************************************)
MaxLivePins == 4

LivePins == [cid : {"Q", "R"}, status : {"pinned", "failed"}, created : {1}]

InitLive ==
    /\ \E n \in 0..MaxLivePins : \E pins \in [1..n -> LivePins] :
          inventory = [i \in 1..n |->
                          [cid |-> pins[i].cid, status |-> pins[i].status,
                           created |-> pins[i].created, requestid |-> i]]
    /\ cids_to_check = <<>>
    /\ ver_caller = "none"
    /\ ver_pc = "idle"
    /\ offset = 0
    /\ pages_processed = 0
    /\ found_cids = <<>>
    /\ duplicate_counts = <<>>
    /\ retries = 0
    /\ page_fetches = 0
    /\ individual_results = <<>>
    /\ ver_ret = <<>>
    /\ caller_ret = <<>>
    /\ ClnIdleInit
    /\ MigIdleInit /\ PinIdleInit /\ BldIdleInit

NextLive ==
    \/ FullScan
    \/ CleanupStart
    \/ NextCid
    \/ DeletePin
    \/ CleanupFinish

SpecLive == InitLive /\ [][NextLive]_vars

(***************************************************************************)
(* Claims about a live cleanup (checked under SpecLive)                    *)
(***************************************************************************)
\* a live run of cleanup_duplicate_pins is under way or has returned
LiveRun == ~dry_run /\ cln_pc \in {"next_cid", "deleting", "cleaned"}

\* the number of instances the report selects for deletion: all but one of each CID
SelectedCount ==
    SumSeq([i \in 1..Len(duplicate_report.details) |->
               Len(duplicate_report.details[i].instances) - 1])

\* the instances a list of failed_deletions entries names
FailedInstances(failed) == {failed[k].instance : k \in 1..Len(failed)}

\* C24: a deletePin call that fails stops neither the instances nor the CIDs that
\* follow: a live run calls deletePin for every selected instance, a failed instance
\* goes to its CID's failed_deletions and to the failed_deletions counter and not to
\* deleted_count, and deleted_count + failed_deletions is the number of selected
\* instances.
C24_DeletionFailureIsolation ==
    /\ LiveRun =>
          /\ cleanup_results.deleted_count + cleanup_results.failed_deletions
                = Len(delete_calls)
          /\ cleanup_results.deleted_count
                = SumSeq([i \in 1..Len(cleanup_results.details) |->
                             Len(cleanup_results.details[i].deleted_instances)])
                  + Len(cln_del.cid_details.deleted_instances)
          /\ cleanup_results.failed_deletions
                = SumSeq([i \in 1..Len(cleanup_results.details) |->
                             Len(cleanup_results.details[i].failed_deletions)])
                  + Len(cln_del.cid_details.failed_deletions)
          /\ \A i \in 1..Len(cleanup_results.details) :
                LET d == cleanup_results.details[i]
                IN  /\ Len(d.deleted_instances) + Len(d.failed_deletions)
                          = d.total_instances - 1
                    /\ FailedInstances(d.failed_deletions)
                          \cap Range(d.deleted_instances) = {}
    /\ (LiveRun /\ cln_pc = "cleaned" /\ duplicate_report.present) =>
          /\ Len(cleanup_results.details) = Len(duplicate_report.details)
          /\ Len(delete_calls) = SelectedCount
          /\ cleanup_results.deleted_count + cleanup_results.failed_deletions
                = SelectedCount

\* a live run whose first deletePin call failed went on to delete a later instance of
\* the same CID and an instance of the next CID
C24_Witness ==
    /\ LiveRun
    /\ cln_pc = "cleaned"
    /\ Len(cleanup_results.details) = 2
    /\ Len(cleanup_results.details[1].failed_deletions) = 1
    /\ cleanup_results.details[1].failed_deletions[1].instance.request_id = delete_calls[1]
    /\ Len(cleanup_results.details[2].deleted_instances) = 1
    /\ cleanup_results.failed_deletions = 1
    /\ cleanup_results.deleted_count = 1

(***************************************************************************)
(* SpecReview: the verification page (app.py display_verification_results  *)
(* and the verification that feeds it).  A session either runs a           *)
(* verification, stores the report it returned and presses the cleanup     *)
(* buttons on it, or scans the whole account and cleans up from the full   *)
(* report.  The script runs one handler at a time.                         *)
(***************************************************************************)
\* app.py 1566-1574: the page starts verify_pinned_cids, nothing else being under way
ReviewVerifyStart ==
    /\ cln_pc = "idle"
    /\ VerifyStart

\* get_full_duplicate_report_for_cleanup, called when no verification was started; the
\* scan takes no target list, so it is explored for the empty one only
ReviewFullScan ==
    /\ ver_pc = "idle"
    /\ cids_to_check = <<>>
    /\ FullScan

\* the duplicate_report that verify_pinned_cids returned
ReturnedReport ==
    IF cids_to_check = <<>> \/ caller_ret.raised THEN [present |-> FALSE]
    ELSE caller_ret.value[4]

\* app.py 1308-1326: a report with duplicates is kept as current_duplicate_report and
\* the cleanup buttons are shown
StoreReport ==
    /\ ver_pc = "returned"
    /\ cln_pc = "idle"
    /\ ReturnedReport.present
    /\ ReturnedReport.duplicate_cids > 0
    /\ ReturnedReport.total_duplicates > 0
    /\ duplicate_report' = ReturnedReport
    /\ cln_pc' = "stored"
    /\ UNCHANGED <<inventory, dry_run, cleanup_results, delete_calls, cln_cid_i, cln_del,
                   scan_status>>
    /\ UNCHANGED <<cids_to_check, ver_caller, ver_pc, offset, pages_processed, found_cids,
                   duplicate_counts, retries, page_fetches, individual_results, ver_ret,
                   caller_ret>>
    /\ UNCHANGED <<migVars, pinVars, bldVars>>

InitReview ==
    /\ InitVerify
    /\ ver_caller = "verify_pinned_cids"

NextReview ==
    \/ ReviewVerifyStart
    \/ FetchPage
    \/ FetchRateLimited
    \/ FetchTimeLimit
    \/ FetchBreak
    \/ IndividualLookup
    \/ BuildResults
    \/ CallerReturn
    \/ StoreReport
    \/ ReviewFullScan
    \/ CleanupStart
    \/ NextCid
    \/ DeletePin
    \/ CleanupFinish

SpecReview == InitReview /\ [][NextReview]_vars

(***************************************************************************)
(* Claims about the verification page (checked under SpecReview)           *)
(***************************************************************************)
\* report.get('partial'): the report is marked partial
IsPartial(report) == "partial" \in DOMAIN report /\ report.partial

\* C14: every duplicate report the streaming verification returns is marked partial
\* and carries no instance details, and a cleanup started on a report marked partial,
\* dry or live, makes no deletePin call and counts no deleted pin.
C14_PartialReportDrivesNoCleanup ==
    /\ (ver_pc \in {"done", "returned"} /\ cids_to_check # <<>> /\ ver_ret[3].present) =>
          IsPartial(ver_ret[3])
    /\ (cln_pc \in {"stored", "next_cid", "deleting", "cleaned"}
        /\ IsPartial(duplicate_report)) =>
          /\ delete_calls = <<>>
          /\ cln_pc # "deleting"
          /\ cln_pc # "stored" => /\ cleanup_results.deleted_count = 0
                                  /\ cleanup_results.details = <<>>

\* C14 witness: the verification found CID A pinned twice and returned a partial
\* report; the live cleanup started on it has returned without a deletePin call.
C14_Witness ==
    /\ cln_pc = "cleaned"
    /\ ~dry_run
    /\ IsPartial(duplicate_report)
    /\ duplicate_report.duplicate_cids = 1
    /\ duplicate_report.total_duplicates >= 1
    /\ Cardinality({i \in 1..Len(inventory) : inventory[i].cid = "A"}) >= 2
    /\ delete_calls = <<>>

\* a step of the streaming verification that took a 429 answer
RateLimitedStep == ver_pc = "scan" /\ retries' = retries + 1

\* C21: a 429 answer to a page fetch never aborts a scan.  In the streaming
\* verification it leaves the offset, the page counter and the accumulated results as
\* they are and the loop goes on with the same page; in the full-inventory scan a 429
\* answer does not end the scan without a report.
C21_RateLimitNeverAborts ==
    /\ [][RateLimitedStep =>
              /\ ver_pc' = "scan"
              /\ offset' = offset
              /\ pages_processed' = pages_processed
              /\ found_cids' = found_cids
              /\ duplicate_counts' = duplicate_counts]_vars
    /\ [](scan_status = 429 => cln_pc # "scan_failed")

\* the CIDs among cids that pins lists more than once
ListedTwice(pins, cids) == {c \in cids : Cardinality(Occurrences(pins, c)) > 1}

\* the listed pins of cids that are not the first pin of their CID: one for every
\* count - 1
ExtraCopies(pins, cids) ==
    {i \in 1..Len(pins) :
        /\ pins[i].cid \in cids
        /\ \E j \in 1..(i - 1) : pins[j].cid = pins[i].cid}

\* the duplicate report the streaming verification returned
StreamReport == ver_ret[3]

\* instances lists the pins of cid in listing order
InListingOrder(cid, instances) ==
    LET occ == Occurrences(inventory, cid)
    IN  /\ Len(instances) = Cardinality(occ)
        /\ \A k \in 1..Len(instances) :
              \E j \in occ : /\ Cardinality({l \in occ : l < j}) = k - 1
                             /\ instances[k] = InstanceOf(inventory[j])

\* C23: in the report of the streaming verification and in the report of the full
\* scan, duplicate_cids is the number of CIDs counted more than once and
\* total_duplicates the sum of count - 1 over them; the details of a full report have
\* an entry for exactly these CIDs, listing every instance of the CID in listing order.
C23_DuplicateReportArithmetic ==
    /\ (ver_pc \in {"done", "returned"} /\ Len(ver_ret) = 3 /\ StreamReport.present) =>
          /\ StreamReport.duplicate_cids = Cardinality(ListedTwice(Scanned, TargetSet))
          /\ StreamReport.total_duplicates = Cardinality(ExtraCopies(Scanned, TargetSet))
    /\ cln_pc = "scanned" =>
          LET listed == Range(CidsListed(inventory))
              details == duplicate_report.details
          IN  /\ duplicate_report.duplicate_cids
                    = Cardinality(ListedTwice(inventory, listed))
              /\ duplicate_report.total_duplicates
                    = Cardinality(ExtraCopies(inventory, listed))
              /\ {details[i].cid : i \in 1..Len(details)} = ListedTwice(inventory, listed)
              /\ Len(details) = Cardinality(ListedTwice(inventory, listed))
              /\ \A i \in 1..Len(details) :
                    InListingOrder(details[i].cid, details[i].instances)

\* a full scan of an account that lists one CID three times
C23_Witness ==
    /\ cln_pc = "scanned"
    /\ duplicate_report.duplicate_cids = 1
    /\ duplicate_report.total_duplicates = 2
    /\ Len(duplicate_report.details[1].instances) = 3
    /\ Len(inventory) = 3

(***************************************************************************)
(* CID Codec: detect_arc_standard (utils.py).  A URL is given by the       *)
(* prefix it starts with and its length; a reserve field by what           *)
(* base64.b64decode and json.loads make of it.                             *)
(***************************************************************************)
CidPrefixes == {"Qm", "bafy", "bafk", "bafz"}

\* the URLs an asset may carry: none, a template (well formed or not), an ipfs:// URL,
\* a bare CID of full or of short length, a bafr CID, a web URL
Urls ==
    {[prefix |-> "", len |-> 0],
     [prefix |-> "template-ipfs://", len |-> 60],
     [prefix |-> "template-ipfs://", len |-> 17],
     [prefix |-> "ipfs://", len |-> 53],
     [prefix |-> "https://", len |-> 30]}
        \cup [prefix : CidPrefixes \cup {"bafr"}, len : {20, 59}]

MimeTypes == {"", "application/json"}

\* the reserve fields: none, an address (what the chain normally holds; it does not
\* decode to JSON), and base64 JSON of several shapes
Reserves == {"", "address", "json_image", "json_name", "json_other", "json_list"}

\* json.loads(base64.b64decode(reserve + '==').decode('utf-8')), or the exception
DecodeReserve(reserve) ==
    CASE reserve = "json_image" -> [ok |-> TRUE, is_dict |-> TRUE, keys |-> {"image"}]
      [] reserve = "json_name" -> [ok |-> TRUE, is_dict |-> TRUE, keys |-> {"name"}]
      [] reserve = "json_other" -> [ok |-> TRUE, is_dict |-> TRUE, keys |-> {"standard"}]
      [] reserve = "json_list" -> [ok |-> TRUE, is_dict |-> FALSE, keys |-> {}]
      [] OTHER -> [ok |-> FALSE, is_dict |-> FALSE, keys |-> {}]

AssetParams == [url : Urls, metadata_mime_type : MimeTypes, reserve : Reserves]

\* detect_arc_standard with the ARC-69 test moved in front of the template test
detect_arc_standard_arc69_first(params) ==
    LET url == params.url
        metadata == DecodeReserve(params.reserve)
    IN  IF /\ params.reserve # ""
           /\ metadata.ok /\ metadata.is_dict
           /\ ("image" \in metadata.keys \/ "name" \in metadata.keys)
        THEN "arc69"
        ELSE IF url.prefix = "template-ipfs://" THEN "arc19"
        ELSE IF /\ params.metadata_mime_type = "" /\ url.len > 0
                /\ (url.prefix \in {"Qm", "bafy", "bafk", "bafz"} \/ url.prefix = "ipfs://")
        THEN "arc19"
        ELSE IF url.prefix = "ipfs://" THEN "standard_ipfs"
        ELSE IF /\ url.len > 0 /\ url.len > 20
                /\ url.prefix \in {"Qm", "bafy", "bafk", "bafz"}
        THEN "potential_cid"
        ELSE "unknown"

detect_arc_standard(params) ==
    LET url == params.url
        metadata == DecodeReserve(params.reserve)
    IN  IF url.prefix = "template-ipfs://" THEN "arc19"
        ELSE IF /\ params.metadata_mime_type = "" /\ url.len > 0
                /\ (url.prefix \in {"Qm", "bafy", "bafk", "bafz"} \/ url.prefix = "ipfs://")
        THEN "arc19"
        ELSE IF /\ params.reserve # ""
                /\ metadata.ok /\ metadata.is_dict
                /\ ("image" \in metadata.keys \/ "name" \in metadata.keys)
        THEN "arc69"
        ELSE IF url.prefix = "ipfs://" THEN "standard_ipfs"
        ELSE IF /\ url.len > 0 /\ url.len > 20
                /\ url.prefix \in {"Qm", "bafy", "bafk", "bafz"}
        THEN "potential_cid"
        ELSE "unknown"

\* a call of detect_arc_standard
Detect ==
    /\ bld_pc = "idle"
    /\ arc_standard' = detect_arc_standard(asset_params)
    /\ bld_pc' = "detected"
    /\ UNCHANGED <<asset_params, arc19_cid, raw_assets, prior_df, resVars, vcpVars>>
    /\ UNCHANGED <<migVars, pinVars, verVars, clnVars>>

InitDetect ==
    /\ asset_params \in AssetParams
    /\ arc_standard = ""
    /\ arc19_cid = [kind |-> "none"]
    /\ raw_assets = <<>>
    /\ prior_df = <<>>
    /\ bld_pc = "idle"
    /\ ResIdleInit /\ VcpIdleInit
    /\ MigIdleInit /\ PinIdleInit /\ VerIdleInit /\ ClnIdleInit

NextDetect == Detect

SpecDetect == InitDetect /\ [][NextDetect]_vars

(***************************************************************************)
(* Claims about the standard detection (checked under SpecDetect)          *)
(***************************************************************************)
LooksLikeCid(url) == url.prefix \in CidPrefixes

\* the rules of the detection order, each on its own
RuleTemplate(params) == params.url.prefix = "template-ipfs://"

RuleFallback(params) ==
    /\ params.url.prefix # "template-ipfs://"
    /\ params.metadata_mime_type = ""
    /\ LooksLikeCid(params.url) \/ params.url.prefix = "ipfs://"

RuleArc69(params) == params.reserve \in {"json_image", "json_name"}

RuleStandardIpfs(params) == params.url.prefix = "ipfs://"

RulePotentialCid(params) == LooksLikeCid(params.url) /\ params.url.len > 20

\* the label of the first rule that matches
FirstMatch(params) ==
    IF RuleTemplate(params) THEN "arc19"
    ELSE IF RuleFallback(params) THEN "arc19"
    ELSE IF RuleArc69(params) THEN "arc69"
    ELSE IF RuleStandardIpfs(params) THEN "standard_ipfs"
    ELSE IF RulePotentialCid(params) THEN "potential_cid"
    ELSE "unknown"

\* C9: detect_arc_standard returns the label of the first rule that matches in the
\* order ARC-19 template, ARC-19 fallback, ARC-69, standard IPFS, potential CID,
\* unknown; every asset whose URL starts with template-ipfs:// is arc19, also when its
\* reserve holds a parseable ARC-69 payload.
C9_FirstMatchWins ==
    bld_pc = "detected" =>
        /\ arc_standard = FirstMatch(asset_params)
        /\ RuleTemplate(asset_params) => arc_standard = "arc19"

\* C9 witness: a template URL together with a parseable ARC-69 reserve was
\* classified arc19.
C9_Witness ==
    /\ bld_pc = "detected"
    /\ asset_params.url.prefix = "template-ipfs://"
    /\ asset_params.reserve = "json_image"
    /\ arc_standard = "arc19"


(***************************************************************************)
(* CID Codec: extract_arc19_cid (utils.py).  Addresses, digests and CIDs   *)
(* are modelled at byte level: a text is a sequence of one-character       *)
(* strings, a byte string a sequence of numbers in 0..255.  A URL is given *)
(* as for detect_arc_standard; a URL that matches the template pattern     *)
(* also carries the four groups of the match.                              *)
(***************************************************************************)
\* the RFC 4648 base32 alphabet: upper case in base64.b32encode / b32decode and in
\* Algorand addresses, lower case in the multibase 'base32' encoding
Base32Upper ==
    <<"A", "B", "C", "D", "E", "F", "G", "H", "I", "J", "K", "L", "M", "N", "O", "P",
      "Q", "R", "S", "T", "U", "V", "W", "X", "Y", "Z", "2", "3", "4", "5", "6", "7">>

Base32Lower ==
    <<"a", "b", "c", "d", "e", "f", "g", "h", "i", "j", "k", "l", "m", "n", "o", "p",
      "q", "r", "s", "t", "u", "v", "w", "x", "y", "z", "2", "3", "4", "5", "6", "7">>

\* the bitcoin alphabet of base58.b58encode
Base58Alphabet ==
    <<"1", "2", "3", "4", "5", "6", "7", "8", "9",
      "A", "B", "C", "D", "E", "F", "G", "H", "J", "K", "L", "M", "N", "P", "Q", "R",
      "S", "T", "U", "V", "W", "X", "Y", "Z",
      "a", "b", "c", "d", "e", "f", "g", "h", "i", "j", "k", "m", "n", "o", "p", "q",
      "r", "s", "t", "u", "v", "w", "x", "y", "z">>

\* the position of a character in an alphabet, from 0
IndexIn(alphabet, c) == (CHOOSE k \in 1..Len(alphabet) : alphabet[k] = c) - 1

\* str.upper() of a text
upper(text) ==
    [i \in 1..Len(text) |->
        IF text[i] \in Range(Base32Lower) /\ text[i] \notin Range(Base32Upper)
        THEN Base32Upper[IndexIn(Base32Lower, text[i]) + 1]
        ELSE text[i]]

\* bit j (from 0, most significant first) of a byte string, zero past its end
BitAt(data, j) ==
    IF j >= 8 * Len(data) THEN 0
    ELSE (data[(j \div 8) + 1] \div 2^(7 - (j % 8))) % 2

\* base32 without padding: the bytes are read most significant bit first, five bits
\* make a character, the last character is filled up with zero bits
b32encode(alphabet, data) ==
    [k \in 1..((8 * Len(data) + 4) \div 5) |->
        alphabet[16 * BitAt(data, 5 * k - 5) + 8 * BitAt(data, 5 * k - 4)
                 + 4 * BitAt(data, 5 * k - 3) + 2 * BitAt(data, 5 * k - 2)
                 + BitAt(data, 5 * k - 1) + 1]]

\* bit j (from 0) of the five-bit values of a base32 text
TextBitAt(alphabet, text, j) ==
    (IndexIn(alphabet, text[(j \div 5) + 1]) \div 2^(4 - (j % 5))) % 2

\* the bytes of an unpadded base32 text; the bits left over at the end are dropped
b32decode_bytes(alphabet, text) ==
    [k \in 1..((5 * Len(text)) \div 8) |->
        128 * TextBitAt(alphabet, text, 8 * k - 8) + 64 * TextBitAt(alphabet, text, 8 * k - 7)
        + 32 * TextBitAt(alphabet, text, 8 * k - 6) + 16 * TextBitAt(alphabet, text, 8 * k - 5)
        + 8 * TextBitAt(alphabet, text, 8 * k - 4) + 4 * TextBitAt(alphabet, text, 8 * k - 3)
        + 2 * TextBitAt(alphabet, text, 8 * k - 2) + TextBitAt(alphabet, text, 8 * k - 1)]

\* base64.b32decode of the text padded with '=' to a multiple of eight characters:
\* it raises on a character outside the upper-case alphabet and on a length that no
\* number of bytes encodes to
b32decode(text) ==
    IF /\ \A i \in 1..Len(text) : text[i] \in Range(Base32Upper)
       /\ Len(text) % 8 \in {0, 2, 4, 5, 7}
    THEN [ok |-> TRUE, bytes |-> b32decode_bytes(Base32Upper, text)]
    ELSE [ok |-> FALSE, bytes |-> <<>>]

\* multibase.encode('base32', data): the prefix 'b' and lower-case unpadded base32
multibase_encode(data) == <<"b">> \o b32encode(Base32Lower, data)

\* multibase.decode of a 'base32' text
multibase_decode(text) == b32decode_bytes(Base32Lower, Tail(text))

\* a byte string without its leading zero bytes
StripZeros(num) ==
    LET nonzero == {i \in 1..Len(num) : num[i] # 0}
    IN  IF nonzero = {} THEN <<>>
        ELSE SubSeq(num, CHOOSE i \in nonzero : \A k \in nonzero : i <= k, Len(num))

\* three base58 digits at a time
Base58Cubed == 58 * 58 * 58

\* long division of the bytes lo..hi of a big-endian number by 58^3, entered with the
\* remainder of the bytes before them: the quotient's bytes and the remainder.  The
\* range is halved rather than walked, which keeps the evaluation shallow.
RECURSIVE DivMod58(_, _, _, _)
DivMod58(num, lo, hi, rem) ==
    IF lo > hi THEN [quotient |-> <<>>, rem |-> rem]
    ELSE IF lo = hi
    THEN [quotient |-> <<(rem * 256 + num[lo]) \div Base58Cubed>>,
          rem |-> (rem * 256 + num[lo]) % Base58Cubed]
    ELSE LET mid == (lo + hi) \div 2
             left == DivMod58(num, lo, mid, rem)
             right == DivMod58(num, mid + 1, hi, left.rem)
         IN  [quotient |-> left.quotient \o right.quotient, rem |-> right.rem]

\* the digits of a number in base 58^3, most significant first
RECURSIVE b58groups(_)
b58groups(num) ==
    IF num = <<>> THEN <<>>
    ELSE LET d == DivMod58(num, 1, Len(num), 0)
         IN  Append(b58groups(StripZeros(d.quotient)), d.rem)

\* the digits of a number in base 58, most significant first
b58digits(num) ==
    LET groups == b58groups(num)
        digits == [k \in 1..(3 * Len(groups)) |->
                      LET g == groups[((k - 1) \div 3) + 1]
                      IN  CASE (k - 1) % 3 = 0 -> g \div (58 * 58)
                            [] (k - 1) % 3 = 1 -> (g \div 58) % 58
                            [] OTHER -> g % 58]
        significant == StripZeros(digits)
    IN  [k \in 1..Len(significant) |-> Base58Alphabet[significant[k] + 1]]

\* base58.b58encode: one '1' for every leading zero byte, then the digits of the rest
b58encode(data) ==
    LET rest == StripZeros(data)
    IN  [i \in 1..(Len(data) - Len(rest)) |-> "1"] \o b58digits(rest)

\* the sizes of an Algorand address: a 32-byte public key followed by a 4-byte
\* checksum, 58 characters of base32 (algosdk.constants key_len_bytes,
\* check_sum_len_bytes, address_len)
DigestLen == 32

ChecksumLen == 4

AddressLen == 58

\* the shortest address field extract_arc19_cid tries to decode
MinAddressLen == 10

\* algosdk's checksum of a public key is the last four bytes of its SHA-512/256
\* hash; the model puts a cheaper function of all the key's bytes in its place
RECURSIVE RangeSum(_, _, _)
RangeSum(data, lo, hi) ==
    IF lo > hi THEN 0
    ELSE IF lo = hi THEN data[lo]
    ELSE RangeSum(data, lo, (lo + hi) \div 2) + RangeSum(data, (lo + hi) \div 2 + 1, hi)

Checksum(pk) ==
    LET s == RangeSum(pk, 1, Len(pk)) + 7
        w == RangeSum([i \in 1..Len(pk) |-> (i + 1) * pk[i]], 1, Len(pk)) + 11
    IN  <<s % 256, (s \div 256) % 256, w % 256, (w \div 256) % 256>>

\* algosdk.encoding.encode_address
encode_address(pk) == b32encode(Base32Upper, pk \o Checksum(pk))

\* algosdk.encoding.decode_address: it raises on a length other than 58, on a text
\* that is not base32 and on a checksum that does not belong to the key
decode_address(addr) ==
    LET decoded == b32decode(addr)
        pk == SubSeq(decoded.bytes, 1, Len(decoded.bytes) - ChecksumLen)
        expected == SubSeq(decoded.bytes, Len(decoded.bytes) - ChecksumLen + 1,
                           Len(decoded.bytes))
    IN  IF Len(addr) = AddressLen /\ decoded.ok /\ Checksum(pk) = expected
        THEN [ok |-> TRUE, bytes |-> pk]
        ELSE [ok |-> FALSE, bytes |-> <<>>]

\* codec_map of extract_arc19_cid
codec_map == ("raw" :> 85) @@ ("dag-pb" :> 112) @@ ("dag-cbor" :> 113)

\* codec_map.get(cid_codec, 0x55) with every codec name taken for raw
codec_byte_raw(cid_codec) == 85

\* codec_map.get(cid_codec, 0x55)
codec_byte(cid_codec) ==
    IF cid_codec \in DOMAIN codec_map THEN codec_map[cid_codec] ELSE 85

\* the CID text made of the decoded bytes: CIDv1 is the multibase base32 text of
\* version, codec, multihash header and bytes, any other version the base58 text
construct_cid(cid_version, cid_codec, hash_type, decoded) ==
    IF cid_version = 1
    THEN LET multihash == IF hash_type = "sha2-256"
                          THEN <<18, 32>> \o decoded
                          ELSE <<18, 32>> \o decoded
             cid_bytes == <<1, codec_byte(cid_codec)>> \o multihash
         IN  multibase_encode(cid_bytes)
    ELSE b58encode(decoded)

\* the values extract_arc19_cid returns: None, a CID text it built, the URL itself
\* (stripped), or the part of an ipfs:// URL between the scheme and the first '/' or '#'
NoCid == [kind |-> "none"]

CidText(text) == [kind |-> "cid", text |-> text]

UrlText(url) == [kind |-> "url", url |-> url]

UrlCidPart(url) == [kind |-> "cid_part", url |-> url]

\* asset_params.get(field_to_get)
GetField(params, field) ==
    IF field \in DOMAIN params THEN [present |-> TRUE, value |-> params[field]]
    ELSE [present |-> FALSE, value |-> <<>>]

extract_arc19_cid(params) ==
    LET url == params.url
    IN  IF url.len = 0 THEN NoCid
        ELSE IF "template" \notin DOMAIN url
        THEN IF params.metadata_mime_type = ""
             THEN IF url.prefix \in {"Qm", "bafy", "bafk", "bafz"} THEN UrlText(url)
                  ELSE IF url.prefix = "ipfs://" THEN UrlCidPart(url)
                  ELSE IF /\ url.len > 10
                          /\ \/ url.prefix = "Qm" /\ url.len >= 46
                             \/ /\ url.prefix \in {"bafy", "bafk", "bafz", "bafr"}
                                /\ url.len >= 50
                  THEN UrlText(url)
                  ELSE NoCid
             ELSE NoCid
        ELSE LET field_to_get == url.template.field
                 cid_version == url.template.version
                 cid_codec == url.template.codec
                 hash_type == url.template.hash_type
                 address_to_decode == GetField(params, field_to_get)
                 decoded_address == decode_address(address_to_decode.value)
                 decoded_bytes == b32decode(upper(address_to_decode.value))
             IN  IF ~address_to_decode.present \/ address_to_decode.value = <<>>
                 THEN NoCid
                 ELSE IF Len(address_to_decode.value) < MinAddressLen THEN NoCid
                 ELSE IF decoded_address.ok
                 THEN CidText(construct_cid(cid_version, cid_codec, hash_type,
                                            decoded_address.bytes))
                 ELSE IF decoded_bytes.ok
                 THEN CidText(construct_cid(cid_version, cid_codec, hash_type,
                                            decoded_bytes.bytes))
                 ELSE NoCid

(***************************************************************************)
(* SpecExtract: extract_arc19_cid applied to the params of one asset       *)
(***************************************************************************)
MaxSeed == 2

\* 32-byte digests: all zero (seed 0), mixed bytes, all 0xFF
Digest(seed) == [i \in 1..DigestLen |-> (seed * (17 * i + 3)) % 256]

Digests == {Digest(seed) : seed \in 0..MaxSeed} \cup {[i \in 1..DigestLen |-> 255]}

lower(text) == [i \in 1..Len(text) |-> Base32Lower[IndexIn(Base32Upper, text[i]) + 1]]

\* an address whose checksum belongs to another key
BadChecksumAddress ==
    b32encode(Base32Upper, Digest(1) \o Checksum(Digest(MaxSeed)))

\* what an address field may hold: the address of a digest, nothing, a text shorter
\* than ten characters, an address with a wrong checksum, an address in lower case,
\* base32 texts of a length that does and that does not decode, a text that is not
\* base32
AddressFields ==
    {encode_address(d) : d \in Digests}
        \cup {<<>>,
              SubSeq(encode_address(Digest(1)), 1, MinAddressLen - 1),
              BadChecksumAddress,
              lower(encode_address(Digest(1))),
              SubSeq(encode_address(Digest(1)), 1, MinAddressLen + 1),
              SubSeq(encode_address(Digest(1)), 1, MinAddressLen + 2),
              <<"0", "x", "1", "8", "!", "0", "x", "1", "8", "!", "0", "x">>}

CodecNames == {"raw", "dag-pb", "dag-cbor", "dag-json"}

HashTypes == {"sha2-256", "blake2b-256"}

\* template-ipfs://{ipfscid:<version>:<codec>:<field>:<hash_type>}
TemplateUrls ==
    {[prefix |-> "template-ipfs://", len |-> 60, template |-> t] :
        t \in [version : {0, 1}, codec : CodecNames,
               field : {"reserve", "manager"}, hash_type : HashTypes]}

\* the URLs of the detection that do not match the template pattern
PlainUrls == {u \in Urls : u.prefix # "template-ipfs://" \/ u.len = 17}

\* the params of an asset: the reserve field holds any of the address fields or is
\* missing, the manager field holds an address or is missing
Arc19Params ==
    {([url |-> u, metadata_mime_type |-> m] @@ r) @@ g :
        u \in TemplateUrls \cup PlainUrls, m \in MimeTypes,
        r \in {<<>>} \cup {("reserve" :> a) : a \in AddressFields},
        g \in {<<>>, ("manager" :> encode_address(Digest(MaxSeed)))}}

\* a call of extract_arc19_cid
Extract ==
    /\ bld_pc = "idle"
    /\ arc19_cid' = extract_arc19_cid(asset_params)
    /\ bld_pc' = "extracted"
    /\ UNCHANGED <<asset_params, arc_standard, raw_assets, prior_df, resVars, vcpVars>>
    /\ UNCHANGED <<migVars, pinVars, verVars, clnVars>>

InitExtract ==
    /\ asset_params \in Arc19Params
    /\ arc_standard = ""
    /\ arc19_cid = NoCid
    /\ raw_assets = <<>>
    /\ prior_df = <<>>
    /\ bld_pc = "idle"
    /\ ResIdleInit /\ VcpIdleInit
    /\ MigIdleInit /\ PinIdleInit /\ VerIdleInit /\ ClnIdleInit

NextExtract == Extract

SpecExtract == InitExtract /\ [][NextExtract]_vars

(***************************************************************************)
(* Claims about extract_arc19_cid (checked under SpecExtract)              *)
(***************************************************************************)
\* the template the URL of the asset matches
Template == asset_params.url.template

IsTemplate == "template" \in DOMAIN asset_params.url

\* what the address field named by the template holds
AddressField == GetField(asset_params, Template.field)

\* the codec byte of a codec name: raw 0x55, dag-pb 0x70, dag-cbor 0x71, any other 0x55
ClaimedCodec(codec) ==
    CASE codec = "raw" -> 85
      [] codec = "dag-pb" -> 112
      [] codec = "dag-cbor" -> 113
      [] OTHER -> 85

\* the bytes of a version-1 CID: 0x01, the codec byte, 0x12, 0x20, the digest
CidBytes(codec, digest) == <<1, ClaimedCodec(codec), 18, 32>> \o digest

\* C17: on a version-1 template whose address field holds the address of a 32-byte
\* digest, extract_arc19_cid returns, for every codec name and every hash type, the
\* multibase base32 text of 0x01, the codec byte, 0x12, 0x20 and the digest, and
\* decoding the text gives these bytes back; on any template whose address field is
\* missing, empty or shorter than 10 characters it returns None.
C17_CidV1RoundTrip ==
    (bld_pc = "extracted" /\ IsTemplate) =>
        /\ \A d \in Digests :
              (/\ Template.version = 1
               /\ AddressField.present
               /\ AddressField.value = encode_address(d)) =>
                  /\ arc19_cid.kind = "cid"
                  /\ arc19_cid.text = multibase_encode(CidBytes(Template.codec, d))
                  /\ Head(arc19_cid.text) = "b"
                  /\ \A i \in 2..Len(arc19_cid.text) :
                         arc19_cid.text[i] \in Range(Base32Lower)
                  /\ multibase_decode(arc19_cid.text) = CidBytes(Template.codec, d)
        /\ (\/ ~AddressField.present
            \/ Len(AddressField.value) < MinAddressLen) =>
               arc19_cid = NoCid

\* a dag-pb template of an undeclared hash type, over a reserve address of a mixed
\* digest, gave a CID that decodes to codec 0x70 and that digest
C17_Witness ==
    /\ bld_pc = "extracted"
    /\ IsTemplate
    /\ Template.version = 1
    /\ Template.codec = "dag-pb"
    /\ Template.hash_type # "sha2-256"
    /\ AddressField.present
    /\ AddressField.value = encode_address(Digest(1))
    /\ arc19_cid.kind = "cid"
    /\ multibase_decode(arc19_cid.text)[2] = 112
    /\ SubSeq(multibase_decode(arc19_cid.text), 5, 4 + DigestLen) = Digest(1)

(***************************************************************************)
(* Metadata Resolver: fetch_metadata_and_extract_image_cid (utils.py).  A  *)
(* gateway answers a GET with a JSON document, with a body that is not     *)
(* JSON, with a status other than 200, or not at all (timeout, connection  *)
(* error).  A URL is its scheme and the CID that follows it.               *)
(***************************************************************************)
\* the length of the gateways list
NumGateways == 3

NoUrl == [scheme |-> "", cid |-> ""]

MetadataDocs ==
    [animation_url : {NoUrl, [scheme |-> "ipfs://", cid |-> "A"],
                      [scheme |-> "https://", cid |-> "A"]},
     image : {NoUrl, [scheme |-> "ipfs://", cid |-> "I"]}]

GatewayAnswers ==
    {[raised |-> FALSE, status_code |-> 200, json |-> TRUE, body |-> m] : m \in MetadataDocs}
        \cup {[raised |-> FALSE, status_code |-> 200, json |-> FALSE, body |-> <<>>]}
        \cup {[raised |-> FALSE, status_code |-> c, json |-> FALSE, body |-> <<>>] :
                 c \in {404, 504}}
        \cup {[raised |-> TRUE, status_code |-> 0, json |-> FALSE, body |-> <<>>]}

\* the pair returned: the media CID ("" for None) and the metadata (<<>> for None,
\* else the document in a one-element tuple)
NoneNone == <<"", <<>>>>

\* requests.get raised, or response.json() raised on a 200 answer
Raises(answer) == answer.raised \/ (answer.status_code = 200 /\ ~answer.json)

\* "url and url.startswith('ipfs://')"
IsIpfsUrl(url) == url # NoUrl /\ url.scheme = "ipfs://"

\* what the body of the try block returns for a parsed 200 answer
MediaOf(metadata) ==
    IF IsIpfsUrl(metadata.animation_url) THEN <<metadata.animation_url.cid, <<metadata>>>>
    ELSE IF IsIpfsUrl(metadata.image) THEN <<metadata.image.cid, <<metadata>>>>
    ELSE <<"", <<metadata>>>>

\* "if i >= 1: break" of the except branch, i counted from 0
BreaksAfter(i) == i >= 1

\* the call
ResolveStart ==
    /\ res_pc = "idle"
    /\ res_pc' = "loop"
    /\ UNCHANGED <<gateway_answers, gateway_attempts, res_ret>>
    /\ UNCHANGED <<asset_params, arc_standard, arc19_cid, raw_assets, prior_df, bld_pc,
                   vcpVars>>
    /\ UNCHANGED <<migVars, pinVars, verVars, clnVars>>

\* one iteration of the loop over the gateways, with the return that follows the
\* loop when the iteration is the last
TryGateway ==
    /\ res_pc = "loop"
    /\ LET i == Len(gateway_attempts)
           answer == gateway_answers[i + 1]
       IN  /\ gateway_attempts' = Append(gateway_attempts, i + 1)
           /\ IF ~Raises(answer) /\ answer.status_code = 200
              THEN /\ res_ret' = MediaOf(answer.body)
                   /\ res_pc' = "returned"
              ELSE IF (Raises(answer) /\ BreaksAfter(i)) \/ i + 1 = NumGateways
              THEN /\ res_ret' = NoneNone
                   /\ res_pc' = "returned"
              ELSE /\ res_ret' = res_ret
                   /\ res_pc' = "loop"
    /\ UNCHANGED gateway_answers
    /\ UNCHANGED <<asset_params, arc_standard, arc19_cid, raw_assets, prior_df, bld_pc,
                   vcpVars>>
    /\ UNCHANGED <<migVars, pinVars, verVars, clnVars>>

InitResolve ==
    /\ gateway_answers \in [1..NumGateways -> GatewayAnswers]
    /\ gateway_attempts = <<>>
    /\ res_ret = <<>>
    /\ res_pc = "idle"
    /\ asset_params = <<>>
    /\ arc_standard = ""
    /\ arc19_cid = [kind |-> "none"]
    /\ raw_assets = <<>>
    /\ prior_df = <<>>
    /\ bld_pc = "idle"
    /\ VcpIdleInit
    /\ MigIdleInit /\ PinIdleInit /\ VerIdleInit /\ ClnIdleInit

NextResolve == ResolveStart \/ TryGateway

SpecResolve == InitResolve /\ [][NextResolve]_vars

(***************************************************************************)
(* Claims about the Metadata Resolver (checked under SpecResolve)          *)
(***************************************************************************)
\* the gateway answered 200 with a JSON document
Answered(answer) == ~answer.raised /\ answer.status_code = 200 /\ answer.json

\* C25: the gateways are tried in list order until one answers 200; a failure
\* (timeout, connection error, non-200, unparsable body) on a gateway is followed
\* by an attempt on the next, and (None, None) is returned only after every gateway
\* of the list has been tried without a 200.
C25_GatewayFallThrough ==
    res_pc = "returned" =>
        /\ gateway_attempts = [k \in 1..Len(gateway_attempts) |-> k]
        /\ \A k \in 1..(Len(gateway_attempts) - 1) : ~Answered(gateway_answers[k])
        /\ \/ Answered(gateway_answers[Len(gateway_attempts)])
           \/ /\ Len(gateway_attempts) = NumGateways
              /\ res_ret = NoneNone
        /\ res_ret = NoneNone =>
              /\ Len(gateway_attempts) = NumGateways
              /\ \A k \in 1..NumGateways : ~Answered(gateway_answers[k])

(***************************************************************************)
(* Collection Builder: create_collection_dataframe (utils.py), called by   *)
(* the fetch page with the session's collection as existing_df (app.py).   *)
(* An asset carries its index, its deleted flag, its params and the CID    *)
(* the extractor of its standard obtains from them ("" for None).  Asset   *)
(* names and URLs are left out of the rows.                                *)
(***************************************************************************)
MaxAssets == 2

AssetIndexes == {1, 2}

TemplateUrl == [prefix |-> "template-ipfs://", len |-> 60]
BareCidUrl == [prefix |-> "Qm", len |-> 59]
IpfsUrl == [prefix |-> "ipfs://", len |-> 53]
WebUrl == [prefix |-> "https://", len |-> 30]

\* one asset of each kind the builder tells apart: ARC-19 with a mime type, ARC-19
\* without, ARC-69, standard IPFS, potential CID, unknown
ParamsKinds ==
    {[url |-> TemplateUrl, metadata_mime_type |-> "application/json", reserve |-> "address"],
     [url |-> BareCidUrl, metadata_mime_type |-> "", reserve |-> "address"],
     [url |-> WebUrl, metadata_mime_type |-> "application/json", reserve |-> "json_image"],
     [url |-> IpfsUrl, metadata_mime_type |-> "application/json", reserve |-> ""],
     [url |-> BareCidUrl, metadata_mime_type |-> "application/json", reserve |-> ""],
     [url |-> WebUrl, metadata_mime_type |-> "application/json", reserve |-> ""]}

\* the raw assets: every kind with a CID, ARC-19 and ARC-69 assets whose extraction
\* fails, and deleted assets
RawAssets ==
    [index : AssetIndexes, deleted : {FALSE}, params : ParamsKinds, extracted : {"X"}]
        \cup {a \in [index : AssetIndexes, deleted : {FALSE}, params : ParamsKinds,
                     extracted : {""}] :
                 a.params.reserve \in {"address", "json_image"} /\ a.params.url # BareCidUrl}
        \cup {a \in [index : AssetIndexes, deleted : {TRUE}, params : ParamsKinds,
                     extracted : {"X"}] : a.params.reserve = "json_image"}

\* extract_cid_from_asset: None for an unknown standard, else what the standard's
\* extractor returns
extract_cid_from_asset(asset) ==
    IF detect_arc_standard(asset.params) = "unknown" THEN "" ELSE asset.extracted

\* a row of the collection built from the chain
BuiltRow(id, standard, meta, img, st, repin, err) ==
    [asset_id |-> id, arc_standard |-> standard, metadata_cid |-> meta, image_cid |-> img,
     status |-> st, repin_cid |-> repin, error_message |-> err]

\* existing_lookup: the keys, and the entry of a key (the last row with that asset_id)
ExistingKeys(existing_df) == {existing_df[i].asset_id : i \in 1..Len(existing_df)}

ExistingData(existing_df, asset_id) ==
    LET rows == {i \in 1..Len(existing_df) : existing_df[i].asset_id = asset_id}
    IN  existing_df[CHOOSE i \in rows : \A j \in rows : j <= i]

\* "if asset_id in existing_lookup" with the lookup never hit
InExistingLookupNever(existing_df, asset_id) == FALSE

\* "if asset_id in existing_lookup"
InExistingLookup(existing_df, asset_id) == asset_id \in ExistingKeys(existing_df)

\* the image CID of an asset with a CID; fetched is what
\* fetch_metadata_and_extract_image_cid obtained ("" for None or an exception)
ImageCidOf(asset, metadata_cid, fetched) ==
    LET standard == detect_arc_standard(asset.params)
    IN  IF standard = "arc19"
        THEN IF asset.params.metadata_mime_type = "" THEN metadata_cid ELSE fetched
        ELSE IF standard = "arc69" THEN metadata_cid
        ELSE IF standard = "standard_ipfs" THEN metadata_cid
        ELSE ""

\* data_row for an asset with a CID
DataRow(asset, existing_df, fetched) ==
    LET metadata_cid == extract_cid_from_asset(asset)
        asset_id == ToString(asset.index)
        image_cid == ImageCidOf(asset, metadata_cid, fetched)
        standard == detect_arc_standard(asset.params)
    IN  IF InExistingLookup(existing_df, asset_id)
        THEN LET existing_data == ExistingData(existing_df, asset_id)
             IN  BuiltRow(asset_id, standard, metadata_cid, image_cid,
                          existing_data.status,
                          IF existing_data.repin_cid # "" THEN existing_data.repin_cid
                          ELSE "",
                          IF existing_data.error_message # ""
                          THEN existing_data.error_message ELSE "")
        ELSE BuiltRow(asset_id, standard, metadata_cid, image_cid, "pending", "", "")

\* mutant: a build that stops at the first asset without a CID
RECURSIVE create_collection_dataframe_abort(_, _, _, _)
create_collection_dataframe_abort(assets, existing_df, fetched, i) ==
    IF i > Len(assets) THEN <<>>
    ELSE LET asset == assets[i]
             rest == create_collection_dataframe_abort(assets, existing_df, fetched, i + 1)
         IN  IF asset.deleted THEN rest
             ELSE IF extract_cid_from_asset(asset) # ""
             THEN <<DataRow(asset, existing_df, fetched[i])>> \o rest
             ELSE <<>>

\* create_collection_dataframe(assets, existing_df); fetched[i] is the outcome of the
\* metadata fetch for asset i
RECURSIVE create_collection_dataframe(_, _, _, _)
create_collection_dataframe(assets, existing_df, fetched, i) ==
    IF i > Len(assets) THEN <<>>
    ELSE LET asset == assets[i]
             rest == create_collection_dataframe(assets, existing_df, fetched, i + 1)
         IN  IF asset.deleted THEN rest
             ELSE IF extract_cid_from_asset(asset) # ""
             THEN <<DataRow(asset, existing_df, fetched[i])>> \o rest
             ELSE rest

\* what fetch_metadata_and_extract_image_cid hands the builder as media CID: none
\* ("" for None or an exception) or the CID named by the metadata document
ResolvedCids == {"", "Y"}

\* the "Fetch Collection Assets" button
Build ==
    /\ bld_pc \in {"idle", "built"}
    /\ \E fetched \in [1..Len(raw_assets) -> ResolvedCids] :
          collection_df' = create_collection_dataframe(raw_assets, collection_df, fetched, 1)
    /\ prior_df' = collection_df
    /\ bld_pc' = "built"
    /\ UNCHANGED <<asset_params, arc_standard, arc19_cid, raw_assets, resVars, vcpVars>>
    /\ UNCHANGED <<pinning_strategy, mig_pc, pending_assets, strategy_type,
                   image_cids_to_pin, metadata_cids_to_pin, pin_results, pin_calls, mig_i>>
    /\ UNCHANGED <<pinVars, verVars, clnVars>>

\* the rows a session may hold for an asset id before a build
PriorRows(id) ==
    {BuiltRow(id, "arc69", "X", "X", "pending", "", ""),
     BuiltRow(id, "arc69", "X", "X", "completed", "X", "Complete NFT pinned"),
     BuiltRow(id, "arc69", "X", "X", "failed", "", "Image")}

\* the collections a session may hold before a build: at most one row per asset id
PriorCollections ==
    {<<>>}
        \cup {<<r>> : r \in PriorRows("1") \cup PriorRows("2")}
        \cup {<<r1, r2>> : r1 \in PriorRows("1"), r2 \in PriorRows("2")}
        \cup {<<r2, r1>> : r1 \in PriorRows("1"), r2 \in PriorRows("2")}

InitBuild ==
    /\ raw_assets \in SeqUpTo(RawAssets, MaxAssets)
    /\ collection_df \in PriorCollections
    /\ prior_df = <<>>
    /\ asset_params = <<>>
    /\ arc_standard = ""
    /\ arc19_cid = [kind |-> "none"]
    /\ bld_pc = "idle"
    /\ pinning_strategy = "auto"
    /\ mig_pc = "idle"
    /\ pending_assets = <<>>
    /\ strategy_type = "none"
    /\ image_cids_to_pin = <<>>
    /\ metadata_cids_to_pin = <<>>
    /\ pin_results = [c \in AllCids |-> NoPinResult]
    /\ pin_calls = <<>>
    /\ mig_i = 1
    /\ ResIdleInit /\ VcpIdleInit
    /\ PinIdleInit /\ VerIdleInit /\ ClnIdleInit

NextBuild == Build

SpecBuild == InitBuild /\ [][NextBuild]_vars

(***************************************************************************)
(* Pin verification of the collection: verify_collection_pins (app.py).    *)
(* verify_pinned_cids hands back a details list, read into                 *)
(* pin_status_lookup; a CID missing from it counts as not pinned.  The     *)
(* list has an entry per CID to verify, or per CID of a front part of them *)
(* when the engine fell back to individual checks.                         *)
(***************************************************************************)
\* the CIDs a row contributes to cids_to_verify: image, metadata, repin
RowCids(row) ==
    (IF row.image_cid # "" THEN <<row.image_cid>> ELSE <<>>)
        \o (IF row.metadata_cid # "" THEN <<row.metadata_cid>> ELSE <<>>)
        \o (IF row.repin_cid # "" THEN <<row.repin_cid>> ELSE <<>>)

\* cids_to_verify, duplicates removed with the order kept
RECURSIVE AllRowCids(_)
AllRowCids(df) ==
    IF df = <<>> THEN <<>>
    ELSE AllRowCids(SubSeq(df, 1, Len(df) - 1)) \o RowCids(df[Len(df)])

CidsToVerify(df) == Unique(AllRowCids(df))

\* pin_status_lookup.get(cid, False)
PinStatusGet(lookup, cid) == IF cid \in DOMAIN lookup THEN lookup[cid] ELSE FALSE

\* asset_fully_pinned of one row
AssetFullyPinned(row, lookup) ==
    LET image_pinned == IF row.image_cid # "" THEN PinStatusGet(lookup, row.image_cid)
                        ELSE TRUE
        metadata_pinned == IF row.metadata_cid # ""
                           THEN IF row.metadata_cid = row.image_cid THEN image_pinned
                                ELSE PinStatusGet(lookup, row.metadata_cid)
                           ELSE TRUE
    IN  image_pinned /\ metadata_pinned

\* mutant: a row that is not fully pinned keeps the status it had
VerifiedRowKeepsStatus(row, lookup) ==
    IF AssetFullyPinned(row, lookup)
    THEN IF row.status # "completed"
         THEN [row EXCEPT !.status = "completed", !.repin_cid = row.image_cid,
                          !.error_message = "Verified as pinned"]
         ELSE row
    ELSE [row EXCEPT !.repin_cid = "", !.error_message = "Pin verification failed"]

\* the row as the status correction leaves it
VerifiedRow(row, lookup) ==
    IF AssetFullyPinned(row, lookup)
    THEN IF row.status # "completed"
         THEN [row EXCEPT !.status = "completed", !.repin_cid = row.image_cid,
                          !.error_message = "Verified as pinned"]
         ELSE row
    ELSE [row EXCEPT !.status = "pending", !.repin_cid = "",
                     !.error_message = "Pin verification failed"]

\* the "Verify Pins" button on a collection with at least one CID
VerifyCollection ==
    /\ mig_pc = "idle"
    /\ collection_df # <<>>
    /\ UNCHANGED <<pinning_strategy, mig_pc, pending_assets, strategy_type,
                   image_cids_to_pin, metadata_cids_to_pin, pin_results, pin_calls, mig_i>>
    /\ UNCHANGED <<asset_params, arc_standard, arc19_cid, raw_assets, prior_df, bld_pc,
                   resVars>>
    /\ UNCHANGED <<pinVars, verVars, clnVars>>
    /\ CidsToVerify(collection_df) # <<>>
    /\ \E k \in 0..Len(CidsToVerify(collection_df)) :
          \E lookup \in [Range(SubSeq(CidsToVerify(collection_df), 1, k)) -> BOOLEAN] :
             /\ collection_df' = [i \in 1..Len(collection_df) |->
                                     VerifiedRow(collection_df[i], lookup)]
             /\ verification_results' =
                   [details |-> lookup,
                    assets_changed_to_pending |->
                        Cardinality({i \in 1..Len(collection_df) :
                                        ~AssetFullyPinned(collection_df[i], lookup)}),
                    assets_kept_completed |->
                        Cardinality({i \in 1..Len(collection_df) :
                                        AssetFullyPinned(collection_df[i], lookup)})]

(***************************************************************************)
(* SpecSession: a session that starts with an empty collection and then    *)
(* fetches the creator's assets, migrates and verifies in any order.  The  *)
(* handlers of a session run one at a time.                                *)
(***************************************************************************)
MaxChain == 2

\* the assets a creator may hold: asset 1 is a templated ARC-19 asset with a mime
\* type, the others are ARC-69 assets
ChainAsset(i) ==
    [index |-> i, deleted |-> FALSE, extracted |-> "X",
     params |-> IF i = 1
                THEN [url |-> TemplateUrl, metadata_mime_type |-> "application/json",
                      reserve |-> "address"]
                ELSE [url |-> WebUrl, metadata_mime_type |-> "application/json",
                      reserve |-> "json_image"]]

\* what the indexer may return: the assets of the creator entered, in creation order
ChainLists ==
    {SelectSeq([i \in 1..MaxChain |-> ChainAsset(i)], LAMBDA a : a.index \in held) :
        held \in SUBSET (1..MaxChain)}

\* migrate_collection returns: its local variables are gone
MigrateReturn ==
    /\ mig_pc \in {"no_pending", "aborted", "done"}
    /\ mig_pc' = "idle"
    /\ pending_assets' = <<>>
    /\ strategy_type' = "none"
    /\ image_cids_to_pin' = <<>>
    /\ metadata_cids_to_pin' = <<>>
    /\ pin_results' = [c \in AllCids |-> NoPinResult]
    /\ pin_calls' = <<>>
    /\ mig_i' = 1
    /\ UNCHANGED <<collection_df, pinning_strategy>>
    /\ UNCHANGED <<pinVars, verVars, clnVars, bldVars>>

\* the "Fetch Collection Assets" button, with the assets get_all_creator_assets
\* returns at that moment
Fetch ==
    /\ mig_pc = "idle"
    /\ \E assets \in ChainLists :
          \E fetched \in [1..Len(assets) -> ResolvedCids] :
             collection_df' = create_collection_dataframe(assets, collection_df, fetched, 1)
    /\ bld_pc' = "built"
    /\ UNCHANGED <<asset_params, arc_standard, arc19_cid, raw_assets, prior_df, resVars,
                   vcpVars>>
    /\ UNCHANGED <<pinning_strategy, mig_pc, pending_assets, strategy_type,
                   image_cids_to_pin, metadata_cids_to_pin, pin_results, pin_calls, mig_i>>
    /\ UNCHANGED <<pinVars, verVars, clnVars>>

InitSession ==
    /\ MigIdleInit /\ PinIdleInit /\ VerIdleInit /\ ClnIdleInit /\ BldIdleInit

NextSession ==
    \/ Fetch
    \/ MigrateStart
    \/ MigrateValidate
    \/ PinMetadata
    \/ PinImage
    \/ UpdateAsset
    \/ MigrateReturn
    \/ VerifyCollection

SpecSession == InitSession /\ [][NextSession]_vars

(***************************************************************************)
(* Claims about the Collection Builder (checked under SpecBuild)           *)
(***************************************************************************)
\* C7: after a build, every output record whose asset_id occurs in the prior
\* collection has the status, repin_cid and error_message of that prior record, and
\* every other output record is pending with empty repin_cid and error_message; a
\* prior completed record is never reset to pending.
C7_StatusPreservingReimport ==
    bld_pc = "built" =>
        \A i \in 1..Len(collection_df) :
            LET r == collection_df[i]
                prior == {k \in 1..Len(prior_df) : prior_df[k].asset_id = r.asset_id}
            IN  /\ \A k \in prior :
                      /\ r.status = prior_df[k].status
                      /\ r.repin_cid = prior_df[k].repin_cid
                      /\ r.error_message = prior_df[k].error_message
                      /\ prior_df[k].status = "completed" => r.status # "pending"
                /\ prior = {} =>
                      /\ r.status = "pending"
                      /\ r.repin_cid = ""
                      /\ r.error_message = ""

\* C7 witness: the prior collection held asset 1 as completed and nothing for asset 2;
\* the rebuild kept asset 1 completed and made asset 2 pending.
C7_Witness ==
    /\ bld_pc = "built"
    /\ Len(prior_df) = 1
    /\ prior_df[1].asset_id = "1" /\ prior_df[1].status = "completed"
    /\ Len(collection_df) = 2
    /\ collection_df[1].asset_id = "1" /\ collection_df[1].status = "completed"
    /\ collection_df[1].repin_cid = "X"
    /\ collection_df[2].asset_id = "2" /\ collection_df[2].status = "pending"


\* the assets of the input that are not marked deleted and from which
\* extract_cid_from_asset obtains a CID, in input order
AssetsWithCid ==
    SelectSeq(raw_assets, LAMBDA a : ~a.deleted /\ extract_cid_from_asset(a) # "")

\* C15: a build returns normally, and the collection it returns holds, in input
\* order, exactly one record for each asset that is not marked deleted and from which
\* a CID is obtained, carrying that asset's id and CID, and no other record; an asset
\* whose extraction yields nothing does not keep a later asset out.
C15_DecodeFailureIsolation ==
    bld_pc = "built" =>
        /\ Len(collection_df) = Len(AssetsWithCid)
        /\ \A k \in 1..Len(AssetsWithCid) :
              /\ collection_df[k].asset_id = ToString(AssetsWithCid[k].index)
              /\ collection_df[k].metadata_cid = extract_cid_from_asset(AssetsWithCid[k])

\* C15 witness: the first asset is an ARC-19 asset whose address does not decode and
\* the second an asset with a CID; the build returned one record, that of the second.
C15_Witness ==
    /\ bld_pc = "built"
    /\ Len(raw_assets) = 2
    /\ ~raw_assets[1].deleted
    /\ detect_arc_standard(raw_assets[1].params) = "arc19"
    /\ raw_assets[1].extracted = ""
    /\ raw_assets[1].index = 1
    /\ raw_assets[2].index = 2
    /\ Len(collection_df) = 1
    /\ collection_df[1].asset_id = "2"


\* an ARC-19 asset whose URL is not a template and whose mime type is absent or empty
IsArc19Fallback(asset) ==
    /\ detect_arc_standard(asset.params) = "arc19"
    /\ asset.params.url.prefix # "template-ipfs://"
    /\ asset.params.metadata_mime_type = ""

\* C26: after a build, the record of an ARC-19-fallback asset has the extracted CID
\* as image CID and an empty metadata CID; the record of an ARC-69 or standard-IPFS
\* asset has the extracted CID as image CID; the record of a templated ARC-19 asset
\* with a mime type has the decoded CID as metadata CID and what the Metadata
\* Resolver returned as image CID.
C26_ExtractedCidRole ==
    bld_pc = "built" =>
        \A k \in 1..Len(AssetsWithCid) :
            LET asset == AssetsWithCid[k]
                r == collection_df[k]
                standard == detect_arc_standard(asset.params)
            IN  /\ IsArc19Fallback(asset) =>
                      /\ r.image_cid = extract_cid_from_asset(asset)
                      /\ r.metadata_cid = ""
                /\ standard \in {"arc69", "standard_ipfs"} =>
                      r.image_cid = extract_cid_from_asset(asset)
                /\ (/\ standard = "arc19"
                    /\ asset.params.url.prefix = "template-ipfs://"
                    /\ asset.params.metadata_mime_type # "") =>
                      /\ r.metadata_cid = extract_cid_from_asset(asset)
                      /\ r.image_cid \in ResolvedCids


(***************************************************************************)
(* Claims about a session (checked under SpecSession)                      *)
(***************************************************************************)
AssetIds(df) == {df[i].asset_id : i \in 1..Len(df)}

\* C27: records are never deleted across runs: in every step of a session (a fetch
\* and rebuild with the current records as prior, a step of a migration, a
\* verification) every asset_id present in the collection before the step is
\* present after it.
C27_RecordsNeverDeleted ==
    [][AssetIds(collection_df) \subseteq AssetIds(collection_df')]_vars

\* C28: in every state of a session a record with status 'completed' has repin_cid
\* equal to its current image_cid.
C28_CompletedPointsAtImage ==
    \A i \in 1..Len(collection_df) :
        collection_df[i].status = "completed" =>
            collection_df[i].repin_cid = collection_df[i].image_cid

\* details reported cid as pinned
ReportedPinned(details, cid) == cid \in DOMAIN details /\ details[cid]

\* each non-empty CID of the row, image, and metadata when it differs from the
\* image, was reported pinned
AllReportedPinned(details, row) ==
    /\ row.image_cid = "" \/ ReportedPinned(details, row.image_cid)
    /\ \/ row.metadata_cid = ""
       \/ row.metadata_cid = row.image_cid
       \/ ReportedPinned(details, row.metadata_cid)

\* C30: a verification of a non-empty collection with at least one CID leaves every
\* record 'completed' or 'pending', none 'failed'; a record is 'completed' exactly
\* when each of its non-empty CIDs was reported pinned, with repin_cid its image CID
\* if it was not completed before; every other record, whatever its status was, is
\* 'pending' with an empty repin_cid.  The CIDs and ids of the records are unchanged.
C30_StatusCorrection ==
    [][VerifyCollection =>
          /\ Len(collection_df') = Len(collection_df)
          /\ \A i \in 1..Len(collection_df) :
                LET old == collection_df[i]
                    new == collection_df'[i]
                    pinned == AllReportedPinned(verification_results'.details, old)
                IN  /\ new.asset_id = old.asset_id
                    /\ new.image_cid = old.image_cid
                    /\ new.metadata_cid = old.metadata_cid
                    /\ new.status \in {"completed", "pending"}
                    /\ new.status = "completed" <=> pinned
                    /\ (pinned /\ old.status # "completed") =>
                          new.repin_cid = new.image_cid
                    /\ (pinned /\ old.status = "completed") =>
                          new.repin_cid = old.repin_cid
                    /\ ~pinned => new.status = "pending" /\ new.repin_cid = ""]_vars

\* C30 witness: a verification has corrected a collection of two records: one was
\* made completed with its image CID as repin_cid, the other was made pending with
\* an empty repin_cid.
C30_Witness ==
    /\ verification_results # <<>>
    /\ verification_results.assets_changed_to_pending = 1
    /\ verification_results.assets_kept_completed = 1
    /\ Len(collection_df) = 2
    /\ \E i, j \in 1..2 :
          /\ collection_df[i].status = "completed"
          /\ collection_df[i].error_message = "Verified as pinned"
          /\ collection_df[i].repin_cid = collection_df[i].image_cid
          /\ AllReportedPinned(verification_results.details, collection_df[i])
          /\ collection_df[j].status = "pending"
          /\ collection_df[j].error_message = "Pin verification failed"
          /\ collection_df[j].repin_cid = ""
          /\ ~AllReportedPinned(verification_results.details, collection_df[j])

====
